---- MODULE Spec2Model ----
(***************************************************************************)
(* Model of the SoundCloud MP3 downloader server.                          *)
(*                                                                         *)
(*  - the Socket.IO revision of SoundCloudDownloader (download,            *)
(*    downloadPlaylist, createPlaylistZip, emitProgress) and its           *)
(*    POST /api/download route;                                            *)
(*  - the Server-Sent-Events revision's subscriber registry                *)
(*    (activeDownloads, GET /api/progress/:downloadId, sendProgress), its  *)
(*    background playlist jobs and GET /api/download/:downloadId;          *)
(*  - the pure helpers sanitizeFilename, isValidSoundCloudUrl and          *)
(*    isPlaylistUrl.                                                       *)
(*                                                                         *)
(* JavaScript strings are sequences of symbols.  A symbol is one character *)
(* ("a", " ", ".", "?", "/") or, in URLs, an indivisible group of          *)
(* characters ("https", "soundcloud.com", "sets").                         *)
(* Progress values are exact rationals, kept as integers in units of 1/60  *)
(* of a percent (P(10) is 10%).                                            *)
(***************************************************************************)
EXTENDS Integers, Sequences, FiniteSets, TLC

VARIABLES
    job,              \* per request: the closure state of download / downloadPlaylist
    emitted,          \* per request: the ProgressData passed to emitProgress, in order
    delivered,        \* per socket id: what io.to(socketId).emit sent, in order
    files,            \* .mp3 files of the output directory: name -> mtime (0 = absent)
    playlistFiles,    \* the names of the files in playlistDir
    activeDownloads,  \* SSE revision: the Map of sink lists and stored results
    sink,             \* SSE revision: per response object, its connection state
    received,         \* SSE revision: per response object, the messages written to it
    published,        \* SSE revision: the downloadId of each sendProgress call
    pubType,          \* SSE revision: the kind of data of each sendProgress call
    crashed,          \* SSE revision: an uncaught exception ended the process
    sseJob,           \* SSE revision: per downloadId, the state of its playlist job
    zips,             \* SSE revision: which archives exist in the output directory
    gets,             \* SSE revision: per GET /api/download request, its state
    sanIn,            \* argument of a sanitizeFilename call
    sanOut,           \* its result
    sanDone           \* whether the call has returned

vars == <<job, emitted, delivered, files, playlistFiles, activeDownloads, sink, received,
          published, pubType, crashed, sseJob, zips, gets, sanIn, sanOut, sanDone>>

jobVars == <<job, emitted, delivered, files>>
sseVars == <<activeDownloads, sink, received, published, pubType, crashed,
             sseJob, zips, gets>>
sanVars == <<sanIn, sanOut, sanDone>>

-----------------------------------------------------------------------------
(* Bounds *)

MaxChunks   == 2    \* stdout 'data' events of one download subprocess
MaxTracks   == 2    \* largest M in "Downloading item N of M"
MaxEntries  == 1    \* entries of an archive
MaxInputLen == 3    \* length of the short sanitizeFilename arguments
MaxPublish  == 3    \* sendProgress calls made while subscribers are connected
MaxFiles    == 3    \* files yt-dlp writes into playlistDir

(* Program constants *)

MaxNameLen == 200   \* substring(0, 200)

-----------------------------------------------------------------------------
(* Strings *)

Min(a, b) == IF a < b THEN a ELSE b
Max(a, b) == IF a > b THEN a ELSE b

Reserved   == {"<", ">", ":", "\"", "/", "\\", "|", "?", "*"}
WhiteSpace == {" ", "\t", "\n"}

Repeat(c, n) == [i \in 1..n |-> c]

RECURSIVE SeqsUpTo(_, _)
SeqsUpTo(S, n) ==
    IF n = 0 THEN {<<>>}
    ELSE LET shorter == SeqsUpTo(S, n - 1)
         IN  shorter \cup {Append(s, c) : s \in shorter, c \in S}

\* String.prototype.trim
TrimStart(s) ==
    IF \A i \in 1..Len(s) : s[i] \in WhiteSpace THEN <<>>
    ELSE SubSeq(s, CHOOSE i \in 1..Len(s) :
                       s[i] \notin WhiteSpace
                       /\ \A m \in 1..(i - 1) : s[m] \in WhiteSpace,
                Len(s))

TrimEnd(s) ==
    IF \A i \in 1..Len(s) : s[i] \in WhiteSpace THEN <<>>
    ELSE SubSeq(s, 1, CHOOSE i \in 1..Len(s) :
                          s[i] \notin WhiteSpace
                          /\ \A m \in (i + 1)..Len(s) : s[m] \in WhiteSpace)

Trim(s) == TrimEnd(TrimStart(s))

\* String.prototype.substring(0, n)
Substring(s, n) == SubSeq(s, 1, Min(Len(s), n))

\* .replace(/[<>:"/\\|?*]/g, '')
RemoveReserved(s) == SelectSeq(s, LAMBDA c : c \notin Reserved)

\* two adjacent pieces of a string in which every run of c is already a
\* single c: joined, with the run that spans the cut made single again
JoinRuns(l, r, c) ==
    IF l # <<>> /\ r # <<>> /\ l[Len(l)] = c /\ Head(r) = c
    THEN l \o Tail(r) ELSE l \o r

\* .replace(/\s+/g, ' '): every run of whitespace becomes one space
RECURSIVE CollapseSpaces(_)
CollapseSpaces(s) ==
    IF Len(s) = 0 THEN <<>>
    ELSE IF Len(s) = 1 THEN (IF s[1] \in WhiteSpace THEN <<" ">> ELSE s)
    ELSE LET h == Len(s) \div 2
         IN  JoinRuns(CollapseSpaces(SubSeq(s, 1, h)),
                      CollapseSpaces(SubSeq(s, h + 1, Len(s))), " ")

\* .replace(/\.{2,}/g, '.'): every run of dots becomes one dot
RECURSIVE CollapseDots(_)
CollapseDots(s) ==
    IF Len(s) <= 1 THEN s
    ELSE LET h == Len(s) \div 2
         IN  JoinRuns(CollapseDots(SubSeq(s, 1, h)),
                      CollapseDots(SubSeq(s, h + 1, Len(s))), ".")

\* String.prototype.split('/')
RECURSIVE Split(_)
Split(s) ==
    IF \A i \in 1..Len(s) : s[i] # "/" THEN <<s>>
    ELSE LET k == CHOOSE i \in 1..Len(s) :
                      s[i] = "/" /\ \A m \in 1..(i - 1) : s[m] # "/"
         IN  <<SubSeq(s, 1, k - 1)>> \o Split(SubSeq(s, k + 1, Len(s)))

\* sanitizeFilename without the two collapsing replaces.
sanitizeFilenameNoCollapse(filename) ==
    Substring(Trim(RemoveReserved(filename)), MaxNameLen)

sanitizeFilename(filename) ==
    Substring(Trim(CollapseDots(CollapseSpaces(RemoveReserved(filename)))),
              MaxNameLen)

-----------------------------------------------------------------------------
(* URLs *)

StartsWith(s, p) == Len(s) >= Len(p) /\ SubSeq(s, 1, Len(p)) = p

\* /^https?:\/\/(www\.)?soundcloud\.com\/.+/
SoundCloudPrefixes ==
    { <<scheme, ":", "/", "/">> \o www \o <<"soundcloud.com", "/">> :
        scheme \in {"http", "https"}, www \in {<<>>, <<"www.">>} }

isValidSoundCloudUrl(url) ==
    \E p \in SoundCloudPrefixes :
        /\ StartsWith(url, p)
        /\ Len(url) > Len(p)
        /\ url[Len(p) + 1] # "\n"

\* url.includes('/sets/')
isPlaylistUrl(url) ==
    \E i \in 1..(Len(url) - 2) :
        url[i] = "/" /\ url[i + 1] = "sets" /\ url[i + 2] = "/"

-----------------------------------------------------------------------------
(* Requests, paths and progress events of the Socket.IO revision *)

Jobs      == {1, 2}
SocketIds == {"s1", "s2"}
NoSocket  == ""                 \* no x-socket-id header: socketId = ''
ExitCodes == {0, 1}
Percents  == {0, 50, 100}       \* the N of a "[download]  N%" line
NoPct     == -1

Https(path) == <<"https", ":", "/", "/", "soundcloud.com", "/">> \o path

UrlTrack        == <<"https", ":", "/", "/", "www.", "soundcloud.com", "/", "u", "/", "a">>
UrlPlaylist     == Https(<<"u", "/", "sets", "/", "b", "-", "c">>)
UrlPlaylistStar == Https(<<"u", "/", "sets", "/", "*">>)
UrlPlaylistBare == <<"http", ":", "/", "/", "soundcloud.com", "/", "u", "/", "sets", "/">>
UrlNoPath       == Https(<<>>)
UrlFtp          == <<"ftp", ":", "/", "/", "soundcloud.com", "/", "u", "/", "a">>
UrlOtherHost    == <<"https", ":", "/", "/", "evil.com", "/", "soundcloud.com", "/", "a">>
UrlOtherSets    == <<"https", ":", "/", "/", "evil.com", "/", "u", "/", "sets", "/", "b">>
UrlEmpty        == <<>>

Urls == {UrlTrack, UrlPlaylist, UrlPlaylistStar, UrlPlaylistBare, UrlNoPath,
         UrlFtp, UrlOtherHost, UrlOtherSets, UrlEmpty}

\* what the info subprocess prints ('%(uploader)s - %(title)s' or
\* '%(playlist_title)s'), after trim()
Titles == {<<>>, <<"a">>, <<"?">>}

Placeholder == <<"SoundCloud_Playlist">>

\* join(this.outputDir, `${name}.mp3`)
Path(name) == <<"downloads", "/">> \o name \o <<".mp3">>

\* the .mp3 files the output directory may hold
FilePaths == {Path(<<"a">>), Path(<<"b">>)}

\* existsSync
Exists(path) == path \in DOMAIN files /\ files[path] > 0

\* n percent, in units of 1/60 percent
P(n) == 60 * n

NoCount == -1
NoCode  == -1

Ev(type, stage, progress, totalTracks, completedTracks) ==
    [type |-> type, stage |-> stage, progress |-> progress,
     totalTracks |-> totalTracks, completedTracks |-> completedTracks]

Ev3(type, stage, progress) == Ev(type, stage, progress, NoCount, NoCount)

NewJob(url, socketId) ==
    [url |-> url, socketId |-> socketId,
     kind |-> "none",           \* which of download / downloadPlaylist runs
     http |-> "pending",        \* the POST request: pending, 400, 500, streaming
     promise |-> "none",        \* none, pending, resolved, rejected
     error |-> "",              \* why the promise was rejected
     info |-> "none",           \* infoProcess: none, running, errored, closed
     dl |-> "none",             \* downloadProcess: none, running, errored, closed
     code |-> NoCode,           \* the code downloadProcess closed with
     zip |-> "none",            \* archive / write stream: none, running, errored, closed
     zipPromise |-> "none",     \* the promise of createPlaylistZip
     cleanName |-> <<>>,        \* cleanFileName / cleanPlaylistName
     isConverting |-> FALSE,
     finalFilePath |-> <<>>,
     trackCount |-> 0,
     totalTracks |-> 0,
     zipProgress |-> 0,         \* `progress` of createPlaylistZip
     gotOutput |-> FALSE,       \* downloadProcess has written to stdout
     chunksLeft |-> MaxChunks,
     result |-> <<>>,           \* filePath / zipPath the promise resolved with
     fileName |-> <<>>,         \* fileName the promise resolved with
     dir |-> FALSE,             \* playlistDir exists on disk
     rmTimer |-> "none",        \* the timer that removes playlistDir:
                                \* none, pending, removed, failed
     zipOnDisk |-> FALSE,       \* the archive of the job exists on disk
     unlink |-> "none",         \* the timer that unlinks the streamed artifact:
                                \* none, pending, removed, failed
     infoSpawns |-> 0,          \* spawn('yt-dlp', infoArgs) calls
     dlSpawns |-> 0,            \* spawn('yt-dlp', downloadArgs) calls
     wrote |-> {}]              \* the .mp3 files the job's yt-dlp created

\* this.io.to(socketId).emit('progress', data), for each of evs in order
Tag(j, evs) == [i \in 1..Len(evs) |-> [job |-> j, ev |-> evs[i]]]

\* emit to every connected socket instead of the room of socketId
emitProgressBroadcast(j, socketId, evs) ==
    /\ emitted' = [emitted EXCEPT ![j] = @ \o evs]
    /\ delivered' = IF socketId # NoSocket
                    THEN [s \in SocketIds |-> delivered[s] \o Tag(j, evs)]
                    ELSE delivered

emitProgress(j, socketId, evs) ==
    /\ emitted' = [emitted EXCEPT ![j] = @ \o evs]
    /\ delivered' = IF socketId # NoSocket
                    THEN [delivered EXCEPT ![socketId] = @ \o Tag(j, evs)]
                    ELSE delivered

\* resolve / reject of the promise returned by download / downloadPlaylist:
\* only the first settlement counts
Resolve(r, path, fileName) ==
    IF r.promise = "pending"
    THEN [r EXCEPT !.promise = "resolved", !.result = path,
                   !.fileName = fileName, !.http = "streaming"]
    ELSE r

Reject(r, why) ==
    IF r.promise = "pending"
    THEN [r EXCEPT !.promise = "rejected", !.error = why, !.http = "500"]
    ELSE r

-----------------------------------------------------------------------------
(* SoundCloudDownloader.download: one single-track job *)

SetJob(j, r) == job' = [job EXCEPT ![j] = r]

\* what the Socket.IO revision's handlers never touch
JobFrame == UNCHANGED <<sseVars, sanVars, playlistFiles>>

\* the same for the handlers that touch the files of playlistDir
DirFrame == UNCHANGED <<sseVars, sanVars>>

\* POST /api/download with an empty body url: 400, nothing else happens
BadRequest(j) ==
    /\ job[j].http = "pending" /\ job[j].kind = "none"
    /\ job[j].url = <<>>
    /\ SetJob(j, [job[j] EXCEPT !.http = "400"])
    /\ UNCHANGED <<emitted, delivered, files>>
    /\ JobFrame

\* download that publishes and spawns before it validates
downloadUnchecked(j) ==
    LET r == job[j] IN
    /\ r.http = "pending" /\ r.kind = "none"
    /\ r.url # <<>> /\ ~isPlaylistUrl(r.url)
    /\ SetJob(j, [r EXCEPT !.kind = "single", !.promise = "pending",
                           !.info = "running", !.infoSpawns = @ + 1])
    /\ emitProgress(j, r.socketId, <<Ev3("single", "info", P(0))>>)
    /\ UNCHANGED files
    /\ JobFrame

\* the route calls download for a url without '/sets/'; download validates,
\* publishes the info event and spawns infoProcess
download(j) ==
    LET r == job[j] IN
    /\ r.http = "pending" /\ r.kind = "none"
    /\ r.url # <<>> /\ ~isPlaylistUrl(r.url)
    /\ IF ~isValidSoundCloudUrl(r.url)
       THEN /\ SetJob(j, [r EXCEPT !.kind = "single", !.promise = "rejected",
                                   !.error = "invalid", !.http = "500"])
            /\ UNCHANGED <<emitted, delivered>>
       ELSE /\ SetJob(j, [r EXCEPT !.kind = "single", !.promise = "pending",
                                   !.info = "running", !.infoSpawns = @ + 1])
            /\ emitProgress(j, r.socketId, <<Ev3("single", "info", P(0))>>)
    /\ UNCHANGED files
    /\ JobFrame

\* infoProcess 'error': the executable could not be started
InfoError(j) ==
    LET r == job[j] IN
    /\ r.kind = "single" /\ r.info = "running"
    /\ SetJob(j, Reject([r EXCEPT !.info = "errored"], "launch"))
    /\ emitProgress(j, r.socketId, <<Ev3("single", "error", P(0))>>)
    /\ UNCHANGED files
    /\ JobFrame

\* an infoProcess 'close' handler that spawns infoProcess once more after a
\* nonzero exit code
InfoCloseRetries(j, infoCode, trackInfo) ==
    LET r == job[j] IN
    /\ r.kind = "single" /\ r.info \in {"running", "errored"}
    /\ r.info = "errored" => infoCode # 0
    /\ IF infoCode # 0 /\ r.infoSpawns < 2
       THEN /\ SetJob(j, [r EXCEPT !.info = "running", !.infoSpawns = @ + 1])
            /\ UNCHANGED <<emitted, delivered>>
       ELSE IF infoCode # 0
       THEN /\ SetJob(j, Reject([r EXCEPT !.info = "closed"], "info"))
            /\ emitProgress(j, r.socketId, <<Ev3("single", "error", P(0))>>)
       ELSE /\ SetJob(j, [r EXCEPT !.info = "closed", !.dl = "running",
                                   !.dlSpawns = @ + 1,
                                   !.cleanName = sanitizeFilename(trackInfo)])
            /\ emitProgress(j, r.socketId, <<Ev3("single", "download", P(10))>>)
    /\ UNCHANGED files
    /\ JobFrame

\* infoProcess 'close'; after a failed launch the code is nonzero
InfoClose(j, infoCode, trackInfo) ==
    LET r == job[j] IN
    /\ r.kind = "single" /\ r.info \in {"running", "errored"}
    /\ r.info = "errored" => infoCode # 0
    /\ IF infoCode # 0
       THEN /\ SetJob(j, Reject([r EXCEPT !.info = "closed"], "info"))
            /\ emitProgress(j, r.socketId, <<Ev3("single", "error", P(0))>>)
       ELSE /\ SetJob(j, [r EXCEPT !.info = "closed", !.dl = "running",
                                   !.dlSpawns = @ + 1,
                                   !.cleanName = sanitizeFilename(trackInfo)])
            /\ emitProgress(j, r.socketId, <<Ev3("single", "download", P(10))>>)
    /\ UNCHANGED files
    /\ JobFrame

\* the yt-dlp of the job creates an .mp3 file in the output directory while
\* the download subprocess runs; it becomes the newest file
Newest == Cardinality({f \in DOMAIN files : files[f] > 0}) + 1

YtDlpWritesFile(j, path) ==
    /\ job[j].kind = "single" /\ job[j].dl = "running"
    /\ files[path] = 0
    /\ files' = [files EXCEPT ![path] = Newest]
    /\ SetJob(j, [job[j] EXCEPT !.wrote = @ \cup {path}])
    /\ UNCHANGED <<emitted, delivered>>
    /\ JobFrame

\* One stdout chunk of the single-track download:
\*   pct       the N of the first "[download] N%", or NoPct
\*   extract   the chunk contains "[ExtractAudio]"
\*   dest      the path of "[ExtractAudio] Destination: <path>.mp3", or <<>>
\*   deleting  the chunk contains "Deleting original file"
Chunk(pct, extract, dest, deleting) ==
    [pct |-> pct, extract |-> extract, dest |-> dest, deleting |-> deleting]

SingleChunks ==
    {Chunk(p, FALSE, <<>>, FALSE) : p \in Percents}
    \cup {Chunk(NoPct, TRUE, <<>>, FALSE)}
    \cup {Chunk(NoPct, TRUE, f, FALSE) : f \in FilePaths}
    \cup {Chunk(NoPct, FALSE, <<>>, TRUE)}
    \cup {Chunk(50, TRUE, Path(<<"a">>), FALSE)}

\* downloadProcess.stdout.on('data') of download: an else-if chain
DownloadStdout(j, c) ==
    LET r  == job[j]
        r1 == [r EXCEPT !.gotOutput = TRUE, !.chunksLeft = @ - 1]
    IN
    /\ r.kind = "single" /\ r.dl = "running" /\ r.chunksLeft > 0
    /\ IF c.pct # NoPct
       THEN /\ SetJob(j, r1)
            /\ emitProgress(j, r.socketId,
                   <<Ev3("single", "download", Min(P(10) + 42 * c.pct, P(80)))>>)
       ELSE IF c.extract /\ ~r.isConverting
       THEN /\ SetJob(j, [r1 EXCEPT !.isConverting = TRUE])
            /\ emitProgress(j, r.socketId, <<Ev3("single", "convert", P(85))>>)
       ELSE IF c.dest # <<>>
       THEN /\ SetJob(j, [r1 EXCEPT !.finalFilePath = c.dest])
            /\ emitProgress(j, r.socketId, <<Ev3("single", "convert", P(95))>>)
       ELSE IF c.deleting
       THEN /\ SetJob(j, r1)
            /\ emitProgress(j, r.socketId, <<Ev3("single", "complete", P(100))>>)
       ELSE /\ SetJob(j, r1)
            /\ UNCHANGED <<emitted, delivered>>
    /\ UNCHANGED files
    /\ JobFrame

\* downloadProcess 'error': the executable could not be started
DownloadError(j) ==
    LET r == job[j] IN
    /\ r.kind = "single" /\ r.dl = "running" /\ ~r.gotOutput
    /\ SetJob(j, Reject([r EXCEPT !.dl = "errored"], "launch"))
    /\ emitProgress(j, r.socketId, <<Ev3("single", "error", P(0))>>)
    /\ UNCHANGED files
    /\ JobFrame

\* the .mp3 files of the output directory with the latest mtime
\* (readdirSync, filter, sort by mtime descending, [0])
RecentMP3Files ==
    {f \in DOMAIN files :
        files[f] > 0 /\ \A g \in DOMAIN files : files[g] <= files[f]}

\* resolution that prefers the expected name over the captured path
ResolvedPathsExpectedFirst(r) ==
    LET expectedFile == Path(r.cleanName) IN
    IF Exists(expectedFile) THEN {expectedFile}
    ELSE IF r.finalFilePath # <<>> /\ Exists(r.finalFilePath)
    THEN {r.finalFilePath}
    ELSE RecentMP3Files

\* resolution that trusts the captured path without existsSync
ResolvedPathsUnchecked(r) ==
    LET expectedFile == Path(r.cleanName) IN
    IF r.finalFilePath # <<>> THEN {r.finalFilePath}
    ELSE IF Exists(expectedFile) THEN {expectedFile}
    ELSE RecentMP3Files

\* the paths download may resolve with on exit code 0 (empty: it rejects)
ResolvedPaths(r) ==
    LET expectedFile == Path(r.cleanName) IN
    IF r.finalFilePath # <<>> /\ Exists(r.finalFilePath)
    THEN {r.finalFilePath}
    ELSE IF Exists(expectedFile) THEN {expectedFile}
    ELSE RecentMP3Files

\* the fileName download resolves with next to filePath
FileNameOf(r, filePath) ==
    LET expectedName == r.cleanName \o <<".mp3">> IN
    IF r.finalFilePath # <<>> /\ Exists(r.finalFilePath)
    THEN \* finalFilePath.split('/').pop() || `${cleanFileName}.mp3`
         LET parts == Split(filePath) IN
         IF parts[Len(parts)] # <<>> THEN parts[Len(parts)] ELSE expectedName
    ELSE IF Exists(Path(r.cleanName)) THEN expectedName
    ELSE \* recentFile.name, where filePath is join(this.outputDir, name)
         SubSeq(filePath, 3, Len(filePath))

\* a 'close' handler that neither resolves nor rejects when no file is found
DownloadCloseDropsNotFound(j, code) ==
    LET r  == job[j]
        r1 == [r EXCEPT !.dl = "closed", !.code = code]
    IN
    /\ r.kind = "single" /\ r.dl \in {"running", "errored"}
    /\ r.dl = "errored" => code # 0
    /\ IF code = 0
       THEN /\ emitProgress(j, r.socketId, <<Ev3("single", "complete", P(100))>>)
            /\ IF ResolvedPaths(r) = {}
               THEN SetJob(j, r1)
               ELSE \E path \in ResolvedPaths(r) :
                        SetJob(j, Resolve(r1, path, FileNameOf(r, path)))
       ELSE /\ emitProgress(j, r.socketId, <<Ev3("single", "error", P(0))>>)
            /\ SetJob(j, Reject(r1, "download"))
    /\ UNCHANGED files
    /\ JobFrame

\* downloadProcess 'close' of download
DownloadClose(j, code) ==
    LET r  == job[j]
        r1 == [r EXCEPT !.dl = "closed", !.code = code]
    IN
    /\ r.kind = "single" /\ r.dl \in {"running", "errored"}
    /\ r.dl = "errored" => code # 0
    /\ IF code = 0
       THEN /\ emitProgress(j, r.socketId, <<Ev3("single", "complete", P(100))>>)
            /\ IF ResolvedPaths(r) = {}
               THEN SetJob(j, Reject(r1, "notfound"))
               ELSE \E path \in ResolvedPaths(r) :
                        SetJob(j, Resolve(r1, path, FileNameOf(r, path)))
       ELSE /\ emitProgress(j, r.socketId, <<Ev3("single", "error", P(0))>>)
            /\ SetJob(j, Reject(r1, "download"))
    /\ UNCHANGED files
    /\ JobFrame

-----------------------------------------------------------------------------
(* SoundCloudDownloader.downloadPlaylist and createPlaylistZip *)

\* .replace(/-/g, ' ')
DashesToSpaces(s) == [i \in 1..Len(s) |-> IF s[i] = "-" THEN " " ELSE s[i]]

\* .replace(/\?.*$/, '')
StripQuery(s) ==
    IF \A i \in 1..Len(s) : s[i] # "?" THEN s
    ELSE LET k == CHOOSE i \in 1..Len(s) :
                      s[i] = "?" /\ \A m \in 1..(i - 1) : s[m] # "?"
         IN  SubSeq(s, 1, k - 1)

\* the name taken from the url when the title fetch gave nothing
NameFromUrl(url) ==
    LET urlParts == Split(url)
        hasSets  == \E i \in 1..Len(urlParts) : urlParts[i] = <<"sets">>
        setsIndex == CHOOSE i \in 1..Len(urlParts) :
                        /\ urlParts[i] = <<"sets">>
                        /\ \A m \in 1..(i - 1) : urlParts[m] # <<"sets">>
    IN  IF hasSets /\ setsIndex < Len(urlParts) /\ urlParts[setsIndex + 1] # <<>>
        THEN Trim(StripQuery(DashesToSpaces(urlParts[setsIndex + 1])))
        ELSE Placeholder

\* cleanPlaylistName of downloadPlaylist
cleanPlaylistNameOf(url, playlistTitle) ==
    LET name == IF playlistTitle = <<>> \/ Trim(playlistTitle) = <<>>
                THEN NameFromUrl(url) ELSE playlistTitle
    IN  sanitizeFilename(IF name = <<>> THEN Placeholder ELSE name)

\* join(this.outputDir, `${playlistName}.zip`)
ZipPath(name) == <<"downloads", "/">> \o name \o <<".zip">>

\* the route calls downloadPlaylist for a url with '/sets/'
downloadPlaylist(j) ==
    LET r == job[j] IN
    /\ r.http = "pending" /\ r.kind = "none"
    /\ r.url # <<>> /\ isPlaylistUrl(r.url)
    /\ IF ~isValidSoundCloudUrl(r.url) \/ ~isPlaylistUrl(r.url)
       THEN /\ SetJob(j, [r EXCEPT !.kind = "playlist", !.promise = "rejected",
                                   !.error = "invalid", !.http = "500"])
            /\ UNCHANGED <<emitted, delivered>>
       ELSE /\ SetJob(j, [r EXCEPT !.kind = "playlist", !.promise = "pending",
                                   !.info = "running", !.infoSpawns = @ + 1])
            /\ emitProgress(j, r.socketId, <<Ev3("playlist", "info", P(0))>>)
    /\ UNCHANGED files
    /\ JobFrame

\* infoProcess 'error' of downloadPlaylist
PlaylistInfoError(j) ==
    LET r == job[j] IN
    /\ r.kind = "playlist" /\ r.info = "running"
    /\ SetJob(j, Reject([r EXCEPT !.info = "errored"], "launch"))
    /\ emitProgress(j, r.socketId, <<Ev3("playlist", "error", P(0))>>)
    /\ UNCHANGED files
    /\ JobFrame

\* infoProcess 'close' of downloadPlaylist: a nonzero code is only logged
PlaylistInfoClose(j, infoCode, playlistTitle) ==
    LET r == job[j] IN
    /\ r.kind = "playlist" /\ r.info \in {"running", "errored"}
    /\ r.info = "errored" => infoCode # 0
    /\ SetJob(j, [r EXCEPT !.info = "closed", !.dl = "running",
                           !.dlSpawns = @ + 1,
                           !.cleanName = cleanPlaylistNameOf(r.url, playlistTitle),
                           !.dir = TRUE])
    /\ emitProgress(j, r.socketId,
           <<Ev("playlist", "download", P(5), NoCount, 0)>>)
    /\ UNCHANGED files
    /\ JobFrame

\* One stdout chunk of the playlist download:
\*   item      <<N, M>> of the first "[download] Downloading item N of M", or <<>>
\*   pct       the N of the first "[download] N%", or NoPct
\*   extract   the chunk contains "[ExtractAudio]"
\*   dests     number of "[ExtractAudio] Destination: ....mp3" lines in it
\*   deleting  the chunk contains "Deleting original file"
PlChunk(item, pct, extract, dests, deleting) ==
    [item |-> item, pct |-> pct, extract |-> extract, dests |-> dests,
     deleting |-> deleting]

PlaylistChunks ==
    {PlChunk(<<n, m>>, NoPct, FALSE, 0, FALSE) : n \in 1..MaxTracks, m \in 1..MaxTracks}
    \cup {PlChunk(<<>>, p, FALSE, 0, FALSE) : p \in Percents}
    \cup {PlChunk(<<>>, NoPct, TRUE, d, FALSE) : d \in 0..2}
    \cup {PlChunk(<<>>, NoPct, FALSE, 0, TRUE)}

\* a handler whose destination branch leaves isConverting set
PlaylistDownloadStdoutNoRearm(j, c) ==
    LET r      == job[j]
        tc     == r.trackCount
        total  == IF c.item # <<>> THEN c.item[2] ELSE r.totalTracks
        itemEv == IF c.item # <<>>
                  THEN <<Ev("playlist", "download",
                            P(5) + (4200 * (c.item[1] - 1)) \div total,
                            total, c.item[1] - 1)>>
                  ELSE <<>>
        pctEv  == IF c.pct # NoPct /\ total > 0
                  THEN <<Ev("playlist", "download",
                            P(5) + (4200 * tc + 42 * c.pct) \div total,
                            total, tc)>>
                  ELSE <<>>
        starts == c.extract /\ ~r.isConverting
        conv   == r.isConverting \/ c.extract
        convEv == IF starts
                  THEN <<Ev("playlist", "convert",
                            P(5) + (4200 * tc + 3360) \div Max(total, 1),
                            total, tc)>>
                  ELSE <<>>
        done   == c.dests > 0 /\ conv
        tc1    == IF done THEN tc + 1 ELSE tc
        doneEv == IF done
                  THEN <<Ev("playlist", "download",
                            P(5) + (4200 * tc1) \div Max(total, tc1),
                            IF total # 0 THEN total ELSE tc1, tc1)>>
                  ELSE <<>>
    IN
    /\ r.kind = "playlist" /\ r.dl = "running" /\ r.chunksLeft > 0
    /\ c.item # <<>> => c.item[1] <= c.item[2]
    /\ SetJob(j, [r EXCEPT !.gotOutput = TRUE, !.chunksLeft = @ - 1,
                           !.totalTracks = total, !.trackCount = tc1,
                           !.isConverting = conv])
    /\ emitProgress(j, r.socketId, itemEv \o pctEv \o convEv \o doneEv)
    /\ UNCHANGED files
    /\ JobFrame

\* a handler that takes the deletion marker for the end of the job
PlaylistDownloadStdoutDeleting(j, c) ==
    LET r      == job[j]
        tc     == r.trackCount
        total  == IF c.item # <<>> THEN c.item[2] ELSE r.totalTracks
        itemEv == IF c.item # <<>>
                  THEN <<Ev("playlist", "download",
                            P(5) + (4200 * (c.item[1] - 1)) \div total,
                            total, c.item[1] - 1)>>
                  ELSE <<>>
        pctEv  == IF c.pct # NoPct /\ total > 0
                  THEN <<Ev("playlist", "download",
                            P(5) + (4200 * tc + 42 * c.pct) \div total,
                            total, tc)>>
                  ELSE <<>>
        starts == c.extract /\ ~r.isConverting
        conv   == r.isConverting \/ c.extract
        convEv == IF starts
                  THEN <<Ev("playlist", "convert",
                            P(5) + (4200 * tc + 3360) \div Max(total, 1),
                            total, tc)>>
                  ELSE <<>>
        done   == c.dests > 0 /\ conv
        tc1    == IF done THEN tc + 1 ELSE tc
        doneEv == IF done
                  THEN <<Ev("playlist", "download",
                            P(5) + (4200 * tc1) \div Max(total, tc1),
                            IF total # 0 THEN total ELSE tc1, tc1)>>
                  ELSE <<>>
    IN
    /\ r.kind = "playlist" /\ r.dl = "running" /\ r.chunksLeft > 0
    /\ c.item # <<>> => c.item[1] <= c.item[2]    \* item N of M has N <= M
    /\ SetJob(j, [r EXCEPT !.gotOutput = TRUE, !.chunksLeft = @ - 1,
                           !.totalTracks = total, !.trackCount = tc1,
                           !.isConverting = IF done THEN FALSE ELSE conv])
    /\ emitProgress(j, r.socketId,
           itemEv \o pctEv \o convEv \o doneEv
           \o (IF c.deleting
               THEN <<Ev("playlist", "complete", P(100), total, tc1)>>
               ELSE <<>>))
    /\ UNCHANGED files
    /\ JobFrame

\* downloadProcess.stdout.on('data') of downloadPlaylist: independent ifs,
\* evaluated in order on the same chunk
PlaylistDownloadStdout(j, c) ==
    LET r      == job[j]
        tc     == r.trackCount
        total  == IF c.item # <<>> THEN c.item[2] ELSE r.totalTracks
        itemEv == IF c.item # <<>>
                  THEN <<Ev("playlist", "download",
                            P(5) + (4200 * (c.item[1] - 1)) \div total,
                            total, c.item[1] - 1)>>
                  ELSE <<>>
        pctEv  == IF c.pct # NoPct /\ total > 0
                  THEN <<Ev("playlist", "download",
                            P(5) + (4200 * tc + 42 * c.pct) \div total,
                            total, tc)>>
                  ELSE <<>>
        starts == c.extract /\ ~r.isConverting
        conv   == r.isConverting \/ c.extract
        convEv == IF starts
                  THEN <<Ev("playlist", "convert",
                            P(5) + (4200 * tc + 3360) \div Max(total, 1),
                            total, tc)>>
                  ELSE <<>>
        done   == c.dests > 0 /\ conv
        tc1    == IF done THEN tc + 1 ELSE tc
        doneEv == IF done
                  THEN <<Ev("playlist", "download",
                            P(5) + (4200 * tc1) \div Max(total, tc1),
                            IF total # 0 THEN total ELSE tc1, tc1)>>
                  ELSE <<>>
    IN
    /\ r.kind = "playlist" /\ r.dl = "running" /\ r.chunksLeft > 0
    /\ c.item # <<>> => c.item[1] <= c.item[2]    \* item N of M has N <= M
    /\ SetJob(j, [r EXCEPT !.gotOutput = TRUE, !.chunksLeft = @ - 1,
                           !.totalTracks = total, !.trackCount = tc1,
                           !.isConverting = IF done THEN FALSE ELSE conv])
    /\ emitProgress(j, r.socketId, itemEv \o pctEv \o convEv \o doneEv)
    /\ UNCHANGED files
    /\ JobFrame

\* downloadProcess 'error' of downloadPlaylist
PlaylistDownloadError(j) ==
    LET r == job[j] IN
    /\ r.kind = "playlist" /\ r.dl = "running" /\ ~r.gotOutput
    /\ SetJob(j, Reject([r EXCEPT !.dl = "errored"], "launch"))
    /\ emitProgress(j, r.socketId, <<Ev3("playlist", "error", P(0))>>)
    /\ UNCHANGED files
    /\ JobFrame

\* a close handler that compares the count with >= instead of >
ProceedsToZipAnyCount(code, trackCount) == code = 0 \/ trackCount >= 0

\* code === 0 || trackCount > 0: whether the close handler goes on to the archive
\* the characters of '.mp3'
Mp3 == <<".", "m", "p", "3">>

EndsWith(s, suffix) ==
    Len(s) >= Len(suffix)
    /\ SubSeq(s, Len(s) - Len(suffix) + 1, Len(s)) = suffix

\* the symbol that stands for the fourteen characters 'rawrawtemporaw'
Raw == "rawrawtemporaw"

Digits == {"0", "1"}

\* file.includes('rawrawtemporaw') || file.length > 200
HasProblematicName(file) ==
    (\E i \in 1..Len(file) : file[i] = Raw) \/ Len(file) > MaxNameLen

\* .replace(/raw+tempo+raw+/gi, ''): in 'rawrawtemporaw' the leftmost match
\* starts at the second 'raw', so the first 'raw' stays
RECURSIVE RemoveRawTempo(_)
RemoveRawTempo(s) ==
    IF Len(s) = 0 THEN <<>>
    ELSE IF Len(s) = 1 THEN (IF s[1] = Raw THEN <<"r", "a", "w">> ELSE s)
    ELSE LET h == Len(s) \div 2
         IN  RemoveRawTempo(SubSeq(s, 1, h))
             \o RemoveRawTempo(SubSeq(s, h + 1, Len(s)))

\* the length of the longest prefix of s made of symbols of S, from k on
RECURSIVE RunFrom(_, _, _)
RunFrom(s, k, S) ==
    IF k <= Len(s) /\ s[k] \in S THEN 1 + RunFrom(s, k + 1, S) ELSE 0

\* .replace(/^\d+\s*-\s*/, '')
RemoveTrackNumber(s) ==
    LET d  == RunFrom(s, 1, Digits)
        w1 == RunFrom(s, d + 1, WhiteSpace)
        at == d + w1 + 1
        w2 == RunFrom(s, at + 1, WhiteSpace)
    IN  IF d > 0 /\ at <= Len(s) /\ s[at] = "-"
        THEN SubSeq(s, at + w2 + 1, Len(s))
        ELSE s

\* the cleanName cleanupPlaylistFiles computes for a file
RepairedName(file) ==
    LET cleanName == sanitizeFilename(RemoveTrackNumber(RemoveRawTempo(file)))
    IN  IF EndsWith(cleanName, Mp3) THEN cleanName ELSE cleanName \o Mp3

\* a forEach body that renames without looking for an existing file:
\* renameSync replaces the file that has the new name
RenameUnchecked(dir, file) ==
    IF HasProblematicName(file) /\ RepairedName(file) # file
    THEN {(dir \ {file}) \cup {RepairedName(file)}, dir}
    ELSE {dir}

\* the forEach body for one file of the listing: the directories it may
\* leave; renameSync may throw, which is caught
Rename(dir, file) ==
    IF /\ HasProblematicName(file)
       /\ RepairedName(file) # file
       /\ RepairedName(file) \notin dir
    THEN {(dir \ {file}) \cup {RepairedName(file)}, dir}
    ELSE {dir}

\* files.forEach over the rest of the listing, which readdirSync may have
\* returned in any order
RECURSIVE RepairFrom(_, _)
RepairFrom(dir, todo) ==
    IF todo = {} THEN {dir}
    ELSE UNION {UNION {RepairFrom(d, todo \ {file}) : d \in Rename(dir, file)} :
                   file \in todo}

\* cleanupPlaylistFiles(playlistDir): the directories it may leave
cleanupPlaylistFiles(dir) == RepairFrom(dir, dir)

\* the file names yt-dlp may write into playlistDir
TrackFiles ==
    {<<Raw, "a">> \o Mp3,
     <<"0", "1", " ", "-", " ", Raw, "a">> \o Mp3,
     <<"r", "a", "w", "a">> \o Mp3,
     <<"0", "1", " ", "-", " ", "a">> \o Mp3,
     Repeat("b", MaxNameLen + 1) \o Mp3,
     Repeat("b", MaxNameLen) \o Mp3}

\* the yt-dlp of a playlist job writes a track into playlistDir
YtDlpWritesTrack(j, file) ==
    /\ job[j].kind = "playlist" /\ job[j].dl = "running"
    /\ file \notin playlistFiles
    /\ Cardinality(playlistFiles) < MaxFiles
    /\ playlistFiles' = playlistFiles \cup {file}
    /\ UNCHANGED jobVars
    /\ DirFrame

ProceedsToZip(code, trackCount) == code = 0 \/ trackCount > 0

\* the same handler attached to 'exit': stdout may still deliver data
PlaylistDownloadExit(j, code) ==
    LET r == job[j] IN
    /\ r.kind = "playlist" /\ r.dl \in {"running", "errored"} /\ r.zip = "none"
    /\ r.dl = "errored" => code # 0
    /\ IF ProceedsToZip(code, r.trackCount)
       THEN /\ emitProgress(j, r.socketId,
                   <<Ev("playlist", "zip", P(80), r.totalTracks, r.trackCount)>>)
            /\ SetJob(j, [r EXCEPT !.code = code, !.zip = "running",
                                   !.zipPromise = "pending", !.zipProgress = 0,
                                   !.zipOnDisk = TRUE])
            /\ playlistFiles' \in cleanupPlaylistFiles(playlistFiles)
       ELSE /\ emitProgress(j, r.socketId, <<Ev3("playlist", "error", P(0))>>)
            /\ SetJob(j, Reject([r EXCEPT !.dl = "closed", !.code = code], "download"))
            /\ UNCHANGED playlistFiles
    /\ UNCHANGED files
    /\ DirFrame

\* downloadProcess 'close' of downloadPlaylist; on success
\* cleanupPlaylistFiles repairs the names in playlistDir, then
\* createPlaylistZip opens the write stream and starts the archive
PlaylistDownloadClose(j, code) ==
    LET r  == job[j]
        r1 == [r EXCEPT !.dl = "closed", !.code = code]
    IN
    /\ r.kind = "playlist" /\ r.dl \in {"running", "errored"}
    /\ r.dl = "errored" => code # 0
    /\ IF ProceedsToZip(code, r.trackCount)
       THEN /\ emitProgress(j, r.socketId,
                   <<Ev("playlist", "zip", P(80), r.totalTracks, r.trackCount)>>)
            /\ SetJob(j, [r1 EXCEPT !.zip = "running", !.zipPromise = "pending",
                                    !.zipProgress = 0, !.zipOnDisk = TRUE])
            /\ playlistFiles' \in cleanupPlaylistFiles(playlistFiles)
       ELSE /\ emitProgress(j, r.socketId, <<Ev3("playlist", "error", P(0))>>)
            /\ SetJob(j, Reject(r1, "download"))
            /\ UNCHANGED playlistFiles
    /\ UNCHANGED files
    /\ DirFrame

\* Math.round((processed / total) * 15) + 80
ZipPercent(processed, total) == (30 * processed + total) \div (2 * total) + 80

\* an archive 'progress' handler that resolves once every entry is processed,
\* without waiting for the write stream
ArchiveProgressResolves(j, processed, total) ==
    LET r == job[j]
        newProgress == ZipPercent(processed, total)
        r1 == IF processed = total /\ r.zipPromise = "pending"
              THEN Resolve([r EXCEPT !.zipPromise = "resolved"],
                           ZipPath(r.cleanName), r.cleanName \o <<".zip">>)
              ELSE r
    IN
    /\ r.zip = "running"
    /\ IF newProgress > r.zipProgress
       THEN /\ SetJob(j, [r1 EXCEPT !.zipProgress = newProgress])
            /\ emitProgress(j, r.socketId, <<Ev3("playlist", "zip", P(newProgress))>>)
       ELSE UNCHANGED <<job, emitted, delivered>>
    /\ UNCHANGED files
    /\ JobFrame

\* archive 'progress'
ArchiveProgress(j, processed, total) ==
    LET r == job[j]
        newProgress == ZipPercent(processed, total)
    IN
    /\ r.zip = "running"
    /\ IF newProgress > r.zipProgress
       THEN /\ SetJob(j, [r EXCEPT !.zipProgress = newProgress])
            /\ emitProgress(j, r.socketId, <<Ev3("playlist", "zip", P(newProgress))>>)
       ELSE UNCHANGED <<job, emitted, delivered>>
    /\ UNCHANGED files
    /\ JobFrame

\* archive 'error' or output 'error': createPlaylistZip rejects and the
\* catch handler of downloadPlaylist runs
ZipError(j) ==
    LET r == job[j] IN
    /\ r.zip = "running"
    /\ SetJob(j, Reject([r EXCEPT !.zip = "errored", !.zipPromise = "rejected"],
                        "zip"))
    /\ emitProgress(j, r.socketId, <<Ev3("playlist", "error", P(0))>>)
    /\ UNCHANGED files
    /\ JobFrame

\* an output 'close' handler that does not schedule the removal of playlistDir
ZipCloseNoCleanup(j) ==
    LET r == job[j] IN
    /\ r.zip \in {"running", "errored"}
    /\ IF r.zipPromise = "pending"
       THEN /\ SetJob(j, Resolve([r EXCEPT !.zip = "closed",
                                           !.zipPromise = "resolved"],
                                 ZipPath(r.cleanName), r.cleanName \o <<".zip">>))
            /\ emitProgress(j, r.socketId,
                   <<Ev3("playlist", "zip", P(95)),
                     Ev("playlist", "complete", P(100), r.totalTracks, r.trackCount)>>)
       ELSE /\ SetJob(j, [r EXCEPT !.zip = "closed"])
            /\ emitProgress(j, r.socketId, <<Ev3("playlist", "zip", P(95))>>)
    /\ UNCHANGED files
    /\ JobFrame

\* output 'close': createPlaylistZip publishes 95, schedules the removal of
\* playlistDir and resolves; if it was still pending, the then handler of
\* downloadPlaylist publishes complete and resolves
ZipClose(j) ==
    LET r  == job[j]
        r1 == [r EXCEPT !.zip = "closed", !.rmTimer = "pending"]
    IN
    /\ r.zip \in {"running", "errored"}
    /\ IF r.zipPromise = "pending"
       THEN /\ SetJob(j, Resolve([r1 EXCEPT !.zipPromise = "resolved"],
                                 ZipPath(r.cleanName), r.cleanName \o <<".zip">>))
            /\ emitProgress(j, r.socketId,
                   <<Ev3("playlist", "zip", P(95)),
                     Ev("playlist", "complete", P(100), r.totalTracks, r.trackCount)>>)
       ELSE /\ SetJob(j, r1)
            /\ emitProgress(j, r.socketId, <<Ev3("playlist", "zip", P(95))>>)
    /\ UNCHANGED files
    /\ JobFrame

\* the setTimeout callback of the output 'close' handler:
\* rmSync(playlistDir, { recursive: true, force: true }), a failure is logged.
\* With an empty cleanPlaylistName, playlistDir is the output directory.
RemoveDirectory(j, ok) ==
    LET r == job[j]
        \* what the removal leaves of the directory and archive of job k
        After(k) ==
            LET q == IF k = j THEN [r EXCEPT !.rmTimer = "removed"] ELSE job[k]
            IN  [q EXCEPT !.dir = IF q.kind = "playlist"
                                      /\ (q.cleanName = r.cleanName
                                          \/ r.cleanName = <<>>)
                                   THEN FALSE ELSE @,
                          !.zipOnDisk = IF r.cleanName = <<>> THEN FALSE ELSE @]
    IN
    /\ r.rmTimer = "pending"
    /\ IF ok
       THEN /\ job' = [k \in Jobs |-> After(k)]
            /\ files' = IF r.cleanName = <<>> THEN [f \in DOMAIN files |-> 0]
                        ELSE files
            /\ playlistFiles' = {}
       ELSE /\ SetJob(j, [r EXCEPT !.rmTimer = "failed"])
            /\ UNCHANGED <<files, playlistFiles>>
    /\ UNCHANGED <<emitted, delivered>>
    /\ DirFrame

-----------------------------------------------------------------------------
(* POST /api/download after the await: the artifact is streamed, then      *)
(* unlinked by a timer                                                     *)

\* the file createReadStream is given exists
ArtifactOnDisk(r) ==
    IF r.kind = "single" THEN Exists(r.result) ELSE r.zipOnDisk

\* fileStream 'end': the response is complete, the unlink timer is set
FileStreamEnd(j) ==
    LET r == job[j] IN
    /\ r.promise = "resolved" /\ r.http = "streaming"
    /\ ArtifactOnDisk(r)
    /\ SetJob(j, [r EXCEPT !.http = "sent", !.unlink = "pending"])
    /\ UNCHANGED <<emitted, delivered, files>>
    /\ JobFrame

\* fileStream 'error': the file cannot be opened, no header was sent yet
FileStreamError(j) ==
    LET r == job[j] IN
    /\ r.promise = "resolved" /\ r.http = "streaming"
    /\ ~ArtifactOnDisk(r)
    /\ SetJob(j, [r EXCEPT !.http = "500"])
    /\ UNCHANGED <<emitted, delivered, files>>
    /\ JobFrame

\* an unlink timer whose failure surfaces as an error event and a new 500
UnlinkArtifactThrows(j, ok) ==
    LET r == job[j] IN
    /\ r.unlink = "pending"
    /\ IF ok /\ ArtifactOnDisk(r)
       THEN /\ SetJob(j, [r EXCEPT !.unlink = "removed", !.zipOnDisk = FALSE])
            /\ files' = IF r.kind = "single"
                        THEN [files EXCEPT ![r.result] = 0] ELSE files
            /\ UNCHANGED <<emitted, delivered>>
       ELSE /\ SetJob(j, [r EXCEPT !.unlink = "failed", !.http = "500"])
            /\ emitProgress(j, r.socketId, <<Ev3(r.kind, "error", P(0))>>)
            /\ UNCHANGED files
    /\ JobFrame

\* the timer set on 'end': unlinkSync(filePath) / unlinkSync(zipPath) inside
\* try/catch; it throws when ok is FALSE or the file is already gone
UnlinkArtifact(j, ok) ==
    LET r == job[j]
        \* the archive path is shared by the playlists of the same name
        After(k) ==
            IF k = j
            THEN [r EXCEPT !.unlink = "removed", !.zipOnDisk = FALSE]
            ELSE IF r.kind = "playlist" /\ job[k].kind = "playlist"
                    /\ job[k].cleanName = r.cleanName
                 THEN [job[k] EXCEPT !.zipOnDisk = FALSE]
                 ELSE job[k]
    IN
    /\ r.unlink = "pending"
    /\ IF ok /\ ArtifactOnDisk(r)
       THEN /\ job' = [k \in Jobs |-> After(k)]
            /\ files' = IF r.kind = "single"
                        THEN [files EXCEPT ![r.result] = 0] ELSE files
       ELSE /\ SetJob(j, [r EXCEPT !.unlink = "failed"])
            /\ UNCHANGED files
    /\ UNCHANGED <<emitted, delivered>>
    /\ JobFrame

-----------------------------------------------------------------------------
(* The Server-Sent-Events revision: subscriber registry, background         *)
(* playlist jobs and retrieval of their archives                            *)

DownloadIds == {<<"a">>, <<"b">>}     \* Math.random().toString(36) ids of jobs

\* `${downloadId}_result`
ResultKey(id) == id \o <<"_result">>

\* the :downloadId a client may put in the path of GET /api/progress/
RegistryKeys == DownloadIds \cup {ResultKey(id) : id \in DownloadIds}

MaxSinks == 2
Sinks == 1..MaxSinks                  \* response objects of GET /api/progress

MaxGets == 2
Gets == 1..MaxGets                    \* requests of GET /api/download

\* cleanPlaylistName of the background jobs, and their archives
PlaylistNames == {<<"p">>, <<"q">>}
ZipPaths == {ZipPath(n) : n \in PlaylistNames}

Absent           == [kind |-> "absent"]
SinkList(l)      == [kind |-> "sinks", conns |-> l]
Result(zipPath)  == [kind |-> "result", zipPath |-> zipPath]

Msg(id, n) == [id |-> id, seq |-> n]

\* connections.indexOf(res), 0 when absent
IndexOf(l, x) ==
    IF \E i \in 1..Len(l) : l[i] = x
    THEN CHOOSE i \in 1..Len(l) : l[i] = x /\ \A m \in 1..(i - 1) : l[m] # x
    ELSE 0

\* connections.splice(index, 1)
Splice(l, i) == SubSeq(l, 1, i - 1) \o SubSeq(l, i + 1, Len(l))

SseFrame == UNCHANGED <<jobVars, sanVars, playlistFiles>>

\* a handler that replaces the list of the id by the new connection
SubscribeReplace(s, key) ==
    LET entry == activeDownloads[key] IN
    /\ ~crashed /\ sink[s].state = "new"
    /\ received' = [received EXCEPT ![s] = Append(@, Msg(key, 0))]
    /\ IF entry.kind = "result"
       THEN /\ sink' = [sink EXCEPT ![s] = [state |-> "failed", id |-> key,
                                            writable |-> TRUE]]
            /\ UNCHANGED activeDownloads
       ELSE /\ sink' = [sink EXCEPT ![s] = [state |-> "open", id |-> key,
                                            writable |-> TRUE]]
            /\ activeDownloads' = [activeDownloads EXCEPT ![key] = SinkList(<<s>>)]
    /\ UNCHANGED <<published, pubType, crashed, sseJob, zips, gets>>
    /\ SseFrame

\* GET /api/progress/:downloadId
Subscribe(s, key) ==
    LET entry == activeDownloads[key] IN
    /\ ~crashed /\ sink[s].state = "new"
    /\ received' = [received EXCEPT ![s] = Append(@, Msg(key, 0))]
    /\ IF entry.kind = "result"
       THEN \* .push is not a function: the handler throws after the map lookup
            /\ sink' = [sink EXCEPT ![s] = [state |-> "failed", id |-> key,
                                            writable |-> TRUE]]
            /\ UNCHANGED activeDownloads
       ELSE /\ sink' = [sink EXCEPT ![s] = [state |-> "open", id |-> key,
                                            writable |-> TRUE]]
            /\ activeDownloads' =
                   [activeDownloads EXCEPT ![key] =
                       SinkList(Append(IF entry.kind = "sinks" THEN entry.conns
                                       ELSE <<>>, s))]
    /\ UNCHANGED <<published, pubType, crashed, sseJob, zips, gets>>
    /\ SseFrame

\* a close handler that leaves the emptied list in the map
DisconnectKeepEmpty(s) ==
    LET key   == sink[s].id
        entry == activeDownloads[key]
    IN
    /\ ~crashed /\ sink[s].state = "open"
    /\ sink' = [sink EXCEPT ![s].state = "closed"]
    /\ IF entry.kind = "sinks"
       THEN /\ activeDownloads' =
                   [activeDownloads EXCEPT ![key] =
                       SinkList(IF IndexOf(entry.conns, s) # 0
                                THEN Splice(entry.conns, IndexOf(entry.conns, s))
                                ELSE entry.conns)]
            /\ UNCHANGED crashed
       ELSE /\ crashed' = (entry.kind = "result")
            /\ UNCHANGED activeDownloads
    /\ UNCHANGED <<received, published, pubType, sseJob, zips, gets>>
    /\ SseFrame

\* req.on('close') of GET /api/progress/:downloadId
Disconnect(s) ==
    LET key   == sink[s].id
        entry == activeDownloads[key]
        left  == IF IndexOf(entry.conns, s) # 0
                 THEN Splice(entry.conns, IndexOf(entry.conns, s))
                 ELSE entry.conns
    IN
    /\ ~crashed /\ sink[s].state = "open"
    /\ sink' = [sink EXCEPT ![s].state = "closed"]
    /\ IF entry.kind = "sinks"
       THEN /\ activeDownloads' =
                   [activeDownloads EXCEPT ![key] =
                       IF left = <<>> THEN Absent ELSE SinkList(left)]
            /\ UNCHANGED crashed
       ELSE \* a stored result has no indexOf: uncaught TypeError
            /\ crashed' = (entry.kind = "result")
            /\ UNCHANGED activeDownloads
    /\ UNCHANGED <<received, published, pubType, sseJob, zips, gets>>
    /\ SseFrame

\* the response object of a sink stops accepting writes: from now on
\* res.write(message) throws, until the close event removes the sink
BreakSink(s) ==
    /\ ~crashed /\ sink[s].state = "open" /\ sink[s].writable
    /\ sink' = [sink EXCEPT ![s].writable = FALSE]
    /\ UNCHANGED <<activeDownloads, received, published, pubType, crashed,
                   sseJob, zips, gets>>
    /\ SseFrame

\* a forEach without try/catch: the first failing write ends the loop
WriteNoCatch(rcv, id, n) ==
    LET entry == activeDownloads[id] IN
    [s \in Sinks |->
        IF /\ entry.kind = "sinks" /\ IndexOf(entry.conns, s) # 0
           /\ \A i \in 1..IndexOf(entry.conns, s) : sink[entry.conns[i]].writable
        THEN Append(rcv[s], Msg(id, n))
        ELSE rcv[s]]

\* a write that puts the message in front of what the sink already has
WritePrepend(rcv, id, n) ==
    LET entry == activeDownloads[id] IN
    [s \in Sinks |->
        IF entry.kind = "sinks" /\ IndexOf(entry.conns, s) # 0 /\ sink[s].writable
        THEN <<Msg(id, n)>> \o rcv[s]
        ELSE rcv[s]]

\* the writes of sendProgress(downloadId, data) when it is the n-th call:
\* res.write(message) on every response object in the list of downloadId;
\* a write that throws is caught and logged
Write(rcv, id, n) ==
    LET entry == activeDownloads[id] IN
    [s \in Sinks |->
        IF entry.kind = "sinks" /\ IndexOf(entry.conns, s) # 0 /\ sink[s].writable
        THEN Append(rcv[s], Msg(id, n))
        ELSE rcv[s]]

Written(id) == Write(received, id, Len(published) + 1)

\* POST /api/download with a playlist url: the response carries the new
\* downloadId, then downloadPlaylist starts and spawns its info subprocess
PostPlaylist(id) ==
    /\ ~crashed /\ sseJob[id] = "none"
    /\ sseJob' = [sseJob EXCEPT ![id] = "running"]
    /\ UNCHANGED <<activeDownloads, sink, received, published, pubType,
                   crashed, zips, gets>>
    /\ SseFrame

\* sendProgress called by a handler of the running downloadPlaylist
\* (playlist_info, track_progress, track_completed, creating_zip)
sendProgress(id) ==
    /\ ~crashed /\ sseJob[id] = "running"
    /\ Len(published) < MaxPublish
    /\ received' = Written(id)
    /\ published' = Append(published, id)
    /\ pubType' = Append(pubType, "progress")
    /\ UNCHANGED <<activeDownloads, sink, crashed, sseJob, zips, gets>>
    /\ SseFrame

\* a route that publishes ready_for_download without storing the result
StoreResultPublishOnly(id, name) ==
    /\ ~crashed /\ sseJob[id] = "running"
    /\ sseJob' = [sseJob EXCEPT ![id] = "ready"]
    /\ zips' = [zips EXCEPT ![ZipPath(name)] = TRUE]
    /\ received' = Write(Written(id), id, Len(published) + 2)
    /\ published' = published \o <<id, id>>
    /\ pubType' = pubType \o <<"completed", "ready_for_download">>
    /\ UNCHANGED <<activeDownloads, sink, crashed, gets>>
    /\ SseFrame

\* the archive of the job is closed: downloadPlaylist publishes completed
\* and resolves, the route stores the result under `${downloadId}_result`
\* and publishes ready_for_download
StoreResult(id, name) ==
    /\ ~crashed /\ sseJob[id] = "running"
    /\ sseJob' = [sseJob EXCEPT ![id] = "ready"]
    /\ zips' = [zips EXCEPT ![ZipPath(name)] = TRUE]
    /\ activeDownloads' =
           [activeDownloads EXCEPT ![ResultKey(id)] = Result(ZipPath(name))]
    /\ received' = Write(Written(id), id, Len(published) + 2)
    /\ published' = published \o <<id, id>>
    /\ pubType' = pubType \o <<"completed", "ready_for_download">>
    /\ UNCHANGED <<sink, crashed, gets>>
    /\ SseFrame

\* downloadPlaylist rejects (invalid url, failed launch, nonzero exit,
\* archive error): the catch of the route publishes an error message
FailJob(id) ==
    /\ ~crashed /\ sseJob[id] = "running"
    /\ sseJob' = [sseJob EXCEPT ![id] = "failed"]
    /\ received' = Written(id)
    /\ published' = Append(published, id)
    /\ pubType' = Append(pubType, "error")
    /\ UNCHANGED <<activeDownloads, sink, crashed, zips, gets>>
    /\ SseFrame

GetFrame == UNCHANGED <<sink, received, published, pubType, sseJob>>

\* GET /api/download/:downloadId
Retrieve(g, id) ==
    LET result == activeDownloads[ResultKey(id)] IN
    /\ ~crashed /\ gets[g].state = "new"
    /\ gets' = [gets EXCEPT ![g] =
                   IF result.kind = "absent"
                   THEN [state |-> "404", id |-> id, zipPath |-> <<>>]
                   ELSE IF result.kind = "sinks"
                   THEN \* zipPath is undefined: createReadStream throws, 500
                        [state |-> "500", id |-> id, zipPath |-> <<>>]
                   ELSE [state |-> "opening", id |-> id,
                         zipPath |-> result.zipPath]]
    /\ UNCHANGED <<activeDownloads, crashed, zips>>
    /\ GetFrame /\ SseFrame

\* the read stream opens the file; without the file it emits 'error', which
\* has no listener: an uncaught exception
StreamOpen(g) ==
    /\ ~crashed /\ gets[g].state = "opening"
    /\ IF zips[gets[g].zipPath]
       THEN gets' = [gets EXCEPT ![g].state = "streaming"] /\ UNCHANGED crashed
       ELSE gets' = [gets EXCEPT ![g].state = "error"] /\ crashed' = TRUE
    /\ UNCHANGED <<activeDownloads, zips>>
    /\ GetFrame /\ SseFrame

\* fileStream 'end': the whole archive was sent; the cleanup timer is set
StreamEnd(g) ==
    /\ ~crashed /\ gets[g].state = "streaming"
    /\ gets' = [gets EXCEPT ![g].state = "ended"]
    /\ UNCHANGED <<activeDownloads, crashed, zips>>
    /\ GetFrame /\ SseFrame

\* the setTimeout callback: unlinkSync(zipPath), then
\* activeDownloads.delete(`${downloadId}_result`); an exception of unlinkSync
\* is caught and skips the delete
CleanupTimer(g) ==
    LET path == gets[g].zipPath IN
    /\ ~crashed /\ gets[g].state = "ended"
    /\ gets' = [gets EXCEPT ![g].state = "cleaned"]
    /\ IF zips[path]
       THEN /\ zips' = [zips EXCEPT ![path] = FALSE]
            /\ activeDownloads' =
                   [activeDownloads EXCEPT ![ResultKey(gets[g].id)] = Absent]
       ELSE UNCHANGED <<zips, activeDownloads>>
    /\ UNCHANGED crashed
    /\ GetFrame /\ SseFrame

-----------------------------------------------------------------------------
(* Calls of sanitizeFilename *)

SanChars == {"a", " ", "\t", ".", "?"}

\* short arguments, and arguments around the length limit
SanInputs ==
    SeqsUpTo(SanChars, MaxInputLen)
    \cup {Repeat("a", n) \o t : n \in {MaxNameLen - 1, MaxNameLen},
                                t \in SeqsUpTo(SanChars, MaxInputLen)}
    \cup {t \o Repeat("a", MaxNameLen) : t \in SeqsUpTo(SanChars, MaxInputLen)}

SanitizeCall ==
    /\ ~sanDone
    /\ sanOut' = sanitizeFilename(sanIn)
    /\ sanDone' = TRUE
    /\ UNCHANGED <<sanIn, jobVars, sseVars, playlistFiles>>

-----------------------------------------------------------------------------
(* Specifications *)

JobIdle == /\ playlistFiles = {}
           /\ emitted = [j \in Jobs |-> <<>>]
           /\ delivered = [s \in SocketIds |-> <<>>]
           /\ files = [f \in FilePaths |-> 0]

SseIdle == /\ activeDownloads = [k \in RegistryKeys |-> Absent]
           /\ sink = [s \in Sinks |-> [state |-> "new", id |-> <<>>,
                                       writable |-> TRUE]]
           /\ received = [s \in Sinks |-> <<>>]
           /\ published = <<>>
           /\ pubType = <<>>
           /\ crashed = FALSE
           /\ sseJob = [id \in DownloadIds |-> "none"]
           /\ zips = [z \in ZipPaths |-> FALSE]
           /\ gets = [g \in Gets |-> [state |-> "new", id |-> <<>>,
                                      zipPath |-> <<>>]]

SanIdle == sanIn = <<>> /\ sanOut = <<>> /\ sanDone = FALSE

\* one request of a connected client, any url
Init ==
    /\ \E url \in Urls :
           job = [j \in Jobs |-> IF j = 1 THEN NewJob(url, "s1")
                                 ELSE NewJob(UrlEmpty, NoSocket)]
    /\ JobIdle /\ SseIdle /\ SanIdle

JobNext(j, titles, paths, singleChunks, playlistChunks, entries) ==
    \/ download(j)
    \/ InfoError(j)
    \/ \E code \in ExitCodes, t \in titles : InfoClose(j, code, t)
    \/ \E f \in paths : YtDlpWritesFile(j, f)
    \/ \E c \in singleChunks : DownloadStdout(j, c)
    \/ DownloadError(j)
    \/ \E code \in ExitCodes : DownloadClose(j, code)
    \/ downloadPlaylist(j)
    \/ PlaylistInfoError(j)
    \/ \E code \in ExitCodes, t \in titles : PlaylistInfoClose(j, code, t)
    \/ \E c \in playlistChunks : PlaylistDownloadStdout(j, c)
    \/ PlaylistDownloadError(j)
    \/ \E code \in ExitCodes : PlaylistDownloadClose(j, code)
    \/ \E total \in entries : \E processed \in 0..total :
           ArchiveProgress(j, processed, total)
    \/ ZipError(j)
    \/ ZipClose(j)
    \/ \E ok \in BOOLEAN : RemoveDirectory(j, ok)

Next ==
    \/ BadRequest(1)
    \/ JobNext(1, Titles, FilePaths, SingleChunks, PlaylistChunks, 1..MaxEntries)

Spec == Init /\ [][Next]_vars

\* two concurrent requests, a track and a playlist, one output chunk each;
\* the second comes from the same client, another client, or without a
\* socket id
InitTwo ==
    /\ \E s2 \in SocketIds \cup {NoSocket} :
           job = [j \in Jobs |->
                     IF j = 1
                     THEN [NewJob(UrlTrack, "s1") EXCEPT !.chunksLeft = 1]
                     ELSE [NewJob(UrlPlaylist, s2) EXCEPT !.chunksLeft = 1]]
    /\ JobIdle /\ SseIdle /\ SanIdle

NextTwo ==
    \E j \in Jobs :
        JobNext(j, {<<"a">>}, {Path(<<"a">>)}, {Chunk(50, FALSE, <<>>, FALSE)},
                {PlChunk(<<>>, NoPct, TRUE, 1, FALSE)}, {1})

SpecTwo == InitTwo /\ [][NextTwo]_vars

\* one request and the delivery of its artifact, one output chunk
InitDeliver ==
    /\ \E url \in {UrlTrack, UrlPlaylist} :
           job = [j \in Jobs |->
                     IF j = 1 THEN [NewJob(url, "s1") EXCEPT !.chunksLeft = 1]
                     ELSE NewJob(UrlEmpty, NoSocket)]
    /\ JobIdle /\ SseIdle /\ SanIdle

NextDeliver ==
    \/ JobNext(1, Titles, {Path(<<"a">>)}, {Chunk(NoPct, TRUE, Path(<<"a">>), FALSE)},
               {PlChunk(<<>>, NoPct, TRUE, 1, FALSE)}, {1})
    \/ FileStreamEnd(1)
    \/ FileStreamError(1)
    \/ \E ok \in BOOLEAN : UnlinkArtifact(1, ok)

SpecDeliver == InitDeliver /\ [][NextDeliver]_vars

\* one request, one output chunk; every spawned subprocess eventually emits
\* 'close' or 'error', and so does the archive with its write stream
InitLive ==
    /\ \E url \in {UrlTrack, UrlPlaylist} :
           job = [j \in Jobs |->
                     IF j = 1 THEN [NewJob(url, "s1") EXCEPT !.chunksLeft = 1]
                     ELSE NewJob(UrlEmpty, NoSocket)]
    /\ JobIdle /\ SseIdle /\ SanIdle

NextLive ==
    JobNext(1, {<<"a">>}, {Path(<<"a">>)}, {Chunk(NoPct, TRUE, Path(<<"b">>), FALSE)},
            {PlChunk(<<>>, NoPct, TRUE, 1, FALSE)}, {1})

ProcessesEnd ==
    /\ WF_vars(InfoError(1)
               \/ \E code \in ExitCodes : InfoClose(1, code, <<"a">>))
    /\ WF_vars(DownloadError(1) \/ \E code \in ExitCodes : DownloadClose(1, code))
    /\ WF_vars(PlaylistInfoError(1)
               \/ \E code \in ExitCodes : PlaylistInfoClose(1, code, <<"a">>))
    /\ WF_vars(PlaylistDownloadError(1)
               \/ \E code \in ExitCodes : PlaylistDownloadClose(1, code))
    /\ WF_vars(ZipError(1) \/ ZipClose(1))

SpecLive == InitLive /\ [][NextLive]_vars /\ ProcessesEnd

\* two concurrent requests of two clients for the same url, a track or a
\* playlist, with the delivery of their artifacts; one output chunk each
InitShare ==
    /\ \E url \in {UrlTrack, UrlPlaylist} :
           job = [j \in Jobs |->
                     [NewJob(url, IF j = 1 THEN "s1" ELSE "s2")
                         EXCEPT !.chunksLeft = 1]]
    /\ JobIdle /\ SseIdle /\ SanIdle

NextShare ==
    \E j \in Jobs :
        \/ download(j)
        \/ \E code \in ExitCodes : InfoClose(j, code, <<"a">>)
        \/ YtDlpWritesFile(j, Path(<<"a">>))
        \/ \E code \in ExitCodes : DownloadClose(j, code)
        \/ downloadPlaylist(j)
        \/ PlaylistInfoClose(j, 0, <<"a">>)
        \/ PlaylistDownloadStdout(j, PlChunk(<<>>, NoPct, TRUE, 1, FALSE))
        \/ \E code \in ExitCodes : PlaylistDownloadClose(j, code)
        \/ ZipClose(j)
        \/ \E ok \in BOOLEAN : RemoveDirectory(j, ok)
        \/ FileStreamEnd(j)
        \/ FileStreamError(j)
        \/ \E ok \in BOOLEAN : UnlinkArtifact(j, ok)

SpecShare == InitShare /\ [][NextShare]_vars

\* one playlist request whose yt-dlp fills playlistDir
InitRepair ==
    /\ job = [j \in Jobs |-> IF j = 1 THEN NewJob(UrlPlaylist, "s1")
                              ELSE NewJob(UrlEmpty, NoSocket)]
    /\ JobIdle /\ SseIdle /\ SanIdle

NextRepair ==
    \/ downloadPlaylist(1)
    \/ PlaylistInfoClose(1, 0, <<"a">>)
    \/ \E file \in TrackFiles : YtDlpWritesTrack(1, file)
    \/ \E code \in ExitCodes : PlaylistDownloadClose(1, code)
    \/ ZipClose(1)
    \/ \E ok \in BOOLEAN : RemoveDirectory(1, ok)

SpecRepair == InitRepair /\ [][NextRepair]_vars

\* the output parsers alone: one request whose subprocesses start, with one
\* output chunk more than in the other specifications
InitParse ==
    /\ \E url \in {UrlTrack, UrlPlaylist} :
           job = [j \in Jobs |->
                     IF j = 1
                     THEN [NewJob(url, "s1") EXCEPT !.chunksLeft = MaxChunks + 1]
                     ELSE NewJob(UrlEmpty, NoSocket)]
    /\ JobIdle /\ SseIdle /\ SanIdle

NextParse ==
    \/ download(1)
    \/ InfoClose(1, 0, <<"a">>)
    \/ \E c \in SingleChunks : DownloadStdout(1, c)
    \/ \E code \in ExitCodes : DownloadClose(1, code)
    \/ downloadPlaylist(1)
    \/ PlaylistInfoClose(1, 0, <<"a">>)
    \/ \E c \in PlaylistChunks : PlaylistDownloadStdout(1, c)
    \/ \E code \in ExitCodes : PlaylistDownloadClose(1, code)
    \/ ZipClose(1)

SpecParse == InitParse /\ [][NextParse]_vars

\* the registry alone
InitSSE ==
    /\ job = [j \in Jobs |-> NewJob(UrlEmpty, NoSocket)]
    /\ JobIdle /\ SseIdle /\ SanIdle

NextSSE ==
    \/ \E s \in Sinks, key \in RegistryKeys : Subscribe(s, key)
    \/ \E s \in Sinks : Disconnect(s)
    \/ \E id \in DownloadIds : PostPlaylist(id)
    \/ \E id \in DownloadIds : sendProgress(id)
    \/ \E id \in DownloadIds :
           Len(published) + 2 <= MaxPublish /\ StoreResult(id, <<"p">>)
    \/ \E id \in DownloadIds :
           Len(published) < MaxPublish /\ FailJob(id)

SpecSSE == InitSSE /\ [][NextSSE]_vars

\* the registry with response objects whose writes fail
InitWrite == InitSSE

NextWrite ==
    \/ \E s \in Sinks, id \in DownloadIds : Subscribe(s, id)
    \/ \E s \in Sinks : Disconnect(s)
    \/ \E s \in Sinks : BreakSink(s)
    \/ \E id \in DownloadIds : PostPlaylist(id)
    \/ \E id \in DownloadIds : sendProgress(id)

SpecWrite == InitWrite /\ [][NextWrite]_vars

\* background playlist jobs and the retrieval of their archives, without
\* progress subscribers
InitGet == InitSSE

NextGet ==
    \/ \E id \in DownloadIds : PostPlaylist(id)
    \/ \E id \in DownloadIds, name \in PlaylistNames : StoreResult(id, name)
    \/ \E id \in DownloadIds : FailJob(id)
    \/ \E g \in Gets, id \in DownloadIds : Retrieve(g, id)
    \/ \E g \in Gets : StreamOpen(g)
    \/ \E g \in Gets : StreamEnd(g)
    \/ \E g \in Gets : CleanupTimer(g)

SpecGet == InitGet /\ [][NextGet]_vars

\* one call of sanitizeFilename
InitSanitize ==
    /\ job = [j \in Jobs |-> NewJob(UrlEmpty, NoSocket)]
    /\ JobIdle /\ SseIdle
    /\ sanIn \in SanInputs /\ sanOut = <<>> /\ sanDone = FALSE

NextSanitize == SanitizeCall

SpecSanitize == InitSanitize /\ [][NextSanitize]_vars

-----------------------------------------------------------------------------
(* Properties *)

Stages(j) == {emitted[j][i].stage : i \in 1..Len(emitted[j])}

\* C1: the progress values of consecutively published events of a job are
\* non-decreasing, error events and events after a stage change included.
C1_ProgressNonDecreasing ==
    \A j \in Jobs : \A i \in 1..(Len(emitted[j]) - 1) :
        emitted[j][i + 1].progress >= emitted[j][i].progress

\* C2: a single-track job whose download exits 0 with no output file under
\* any resolution tier is rejected and publishes no complete-stage event.
NoOutputFile(j) ==
    /\ job[j].finalFilePath = <<>> \/ ~Exists(job[j].finalFilePath)
    /\ ~Exists(Path(job[j].cleanName))
    /\ \A f \in DOMAIN files : files[f] = 0

C2_NotFoundNeverComplete ==
    \A j \in Jobs :
        (job[j].kind = "single" /\ job[j].dl = "closed" /\ job[j].code = 0
         /\ NoOutputFile(j))
        => (job[j].promise = "rejected" /\ "complete" \notin Stages(j))

C4_NoEmptySinkList ==
    /\ [](\A k \in RegistryKeys :
              activeDownloads[k].kind = "sinks" => activeDownloads[k].conns # <<>>)
    /\ [][\A s \in Sinks :
              (sink[s].state = "open" /\ sink'[s].state = "closed"
               /\ activeDownloads[sink[s].id] = SinkList(<<s>>))
              => activeDownloads'[sink[s].id] = Absent]_vars
    /\ [][(Len(published') > Len(published)
           /\ activeDownloads[published'[Len(published')]].kind # "sinks")
          => /\ received' = received
             /\ activeDownloads'[published'[Len(published')]]
                    = activeDownloads[published'[Len(published')]]
             /\ ~crashed']_vars

C4_Witness ==
    \E s \in Sinks :
        /\ sink[s].state = "closed" /\ sink[s].id \in DownloadIds
        /\ activeDownloads[sink[s].id] = Absent
        /\ published # <<>> /\ published[Len(published)] = sink[s].id
        /\ Len(received[s]) = 1

C6_ResolutionPriority ==
    \A j \in Jobs :
        (job[j].kind = "single" /\ job[j].dl = "closed" /\ job[j].code = 0)
        => LET r        == job[j]
               captured == r.finalFilePath # <<>> /\ Exists(r.finalFilePath)
               expected == Exists(Path(r.cleanName))
               anyMp3   == \E f \in DOMAIN files : files[f] > 0
           IN  /\ captured => r.promise = "resolved" /\ r.result = r.finalFilePath
               /\ (~captured /\ expected)
                      => r.promise = "resolved" /\ r.result = Path(r.cleanName)
               /\ (~captured /\ ~expected /\ anyMp3)
                      => /\ r.promise = "resolved"
                         /\ Exists(r.result)
                         /\ \A g \in DOMAIN files : files[g] <= files[r.result]
               /\ r.promise = "rejected" <=> (~captured /\ ~expected /\ ~anyMp3)

C6_Witness ==
    \E j \in Jobs :
        /\ job[j].kind = "single" /\ job[j].code = 0
        /\ job[j].promise = "resolved"
        /\ job[j].result = job[j].finalFilePath
        /\ job[j].finalFilePath # Path(job[j].cleanName)
        /\ Exists(Path(job[j].cleanName))
        /\ files[job[j].finalFilePath] < files[Path(job[j].cleanName)]

\* the platform pattern: http or https, optional www., host soundcloud.com,
\* a path that is not empty
MatchesPlatformPattern(url) ==
    LET host == IF Len(url) >= 5 /\ url[5] = "www." THEN 6 ELSE 5 IN
    /\ Len(url) >= host + 2
    /\ url[1] \in {"http", "https"}
    /\ url[2] = ":" /\ url[3] = "/" /\ url[4] = "/"
    /\ url[host] = "soundcloud.com" /\ url[host + 1] = "/"

HasSetsMarker(url) ==
    \E i \in 1..Len(url) :
        i + 2 <= Len(url) /\ SubSeq(url, i, i + 2) = <<"/", "sets", "/">>

\* C7: a url that matches the platform pattern (and, for downloadPlaylist,
\* carries the /sets/ marker) is accepted; every other url is rejected as
\* invalid before any subprocess is spawned and before any event is
\* published.
C7_InvalidUrlRejectedFirst ==
    \A j \in Jobs :
        job[j].kind # "none"
        => IF /\ MatchesPlatformPattern(job[j].url)
              /\ job[j].kind = "playlist" => HasSetsMarker(job[j].url)
           THEN job[j].error # "invalid" /\ job[j].info # "none"
           ELSE /\ job[j].promise = "rejected" /\ job[j].error = "invalid"
                /\ job[j].info = "none" /\ job[j].dl = "none"
                /\ emitted[j] = <<>>
                /\ \A s \in SocketIds : delivered[s] = <<>>

C7_Witness ==
    \E j \in Jobs :
        /\ job[j].url = UrlOtherHost /\ job[j].kind = "single"
        /\ job[j].promise = "rejected" /\ job[j].error = "invalid"

\* C8: the result of sanitizeFilename has at most 200 characters, none of
\* the reserved characters, no two consecutive spaces and no two
\* consecutive dots.
C8_SanitizedShape ==
    sanDone =>
        /\ Len(sanOut) <= 200
        /\ \A i \in 1..Len(sanOut) : sanOut[i] \notin Reserved
        /\ \A i \in 1..(Len(sanOut) - 1) :
               /\ ~(sanOut[i] = " " /\ sanOut[i + 1] = " ")
               /\ ~(sanOut[i] = "." /\ sanOut[i + 1] = ".")

C8_Witness ==
    /\ sanDone
    /\ Len(sanIn) > 200 /\ Len(sanOut) = 200
    /\ \E i \in 1..Len(sanIn) : sanIn[i] \in Reserved
    /\ \E i \in 1..(Len(sanIn) - 1) : sanIn[i] = "." /\ sanIn[i + 1] = "."

\* C9: the sanitized name a job uses for its output file, directory or
\* archive is never empty, whatever the info subprocess printed.
C9_NameNeverEmpty ==
    \A j \in Jobs : job[j].dl # "none" => job[j].cleanName # <<>>

\* C10: after a zip event a job publishes no download or convert event, a
\* playlist job publishes complete only after a zip event, the first event
\* is the info event, and a single-track job never publishes a zip event.
C10_StageOrder ==
    \A j \in Jobs :
        LET e == emitted[j] IN
        /\ e # <<>> => e[1].stage = "info"
        /\ \A i \in 1..Len(e) : \A k \in (i + 1)..Len(e) :
               e[i].stage = "zip" => e[k].stage \notin {"download", "convert"}
        /\ \A k \in 1..Len(e) :
               (job[j].kind = "playlist" /\ e[k].stage = "complete")
               => \E i \in 1..(k - 1) : e[i].stage = "zip"
        /\ job[j].kind = "single" => "zip" \notin Stages(j)

C10_Witness ==
    \E j \in Jobs :
        /\ job[j].kind = "playlist" /\ job[j].promise = "resolved"
        /\ job[j].code = 0 /\ job[j].trackCount > 0
        /\ {"info", "download", "convert", "zip", "complete"} \subseteq Stages(j)
        /\ "error" \notin Stages(j)

\* C11 as stated: in every state in which a playlist job is Complete
\* (complete published, downloadPlaylist resolved with the archive path) the
\* per-track directory no longer exists.
Complete(j) ==
    /\ job[j].kind = "playlist" /\ job[j].promise = "resolved"
    /\ job[j].result = ZipPath(job[j].cleanName)
    /\ "complete" \in Stages(j)

C11_DirectoryGoneWhenComplete ==
    \A j \in Jobs : Complete(j) => ~job[j].dir

\* C11 amended: in every state in which a playlist job is Complete, the
\* removal of its per-track directory has been scheduled; the directory
\* still exists while that timer is pending or when the removal failed, and
\* no longer exists once the timer has fired and the removal succeeded.
C11_DirectoryRemovedAfterGrace ==
    \A j \in Jobs :
        Complete(j)
        => /\ job[j].rmTimer \in {"pending", "removed", "failed"}
           /\ job[j].rmTimer = "removed" => ~job[j].dir
           /\ job[j].rmTimer \in {"pending", "failed"} => job[j].dir

C11_Witness ==
    \E j \in Jobs :
        /\ Complete(j) /\ job[j].cleanName # <<>>
        /\ job[j].rmTimer = "removed" /\ ~job[j].dir

\* C12: whenever a single-track job resolves, the resolved filePath exists
\* on disk at that moment and the resolved fileName ends with .mp3, whichever
\* of the three tiers resolved it.
EndsWithMp3(name) == name # <<>> /\ name[Len(name)] = ".mp3"

C12_ResolvedFileExists ==
    [][\A j \in Jobs :
          (job[j].promise = "pending" /\ job'[j].promise = "resolved"
           /\ job'[j].kind = "single")
          => /\ job'[j].result \in DOMAIN files'
             /\ files'[job'[j].result] > 0
             /\ EndsWithMp3(job'[j].fileName)]_vars

C12_Witness ==
    \E j \in Jobs :
        /\ job[j].kind = "single" /\ job[j].promise = "resolved"
        /\ job[j].finalFilePath # <<>> /\ ~Exists(job[j].finalFilePath)
        /\ ~Exists(Path(job[j].cleanName))
        /\ Exists(job[j].result)

\* C17: every failure of a job (launch failure, nonzero exit, no artifact
\* after a zero exit, archive failure) terminates the job, publishes an
\* error-stage event and answers the request with a failure response.
C17_FailureIsPublishedAndSurfaced ==
    \A j \in Jobs :
        (job[j].promise = "rejected"
         /\ job[j].error \in {"launch", "info", "download", "notfound", "zip"})
        => /\ "error" \in Stages(j)
           /\ job[j].http = "500"
           /\ job[j].dl # "running" /\ job[j].zip # "running"

\* the sinks a client holds open on the job id, with writes that succeed
Registered(s, id) ==
    sink[s].state = "open" /\ sink[s].id = id /\ sink[s].writable

Got(rcv, id, n) == \E i \in 1..Len(rcv) : rcv[i] = Msg(id, n)

\* C13: every sendProgress call for a job id writes its event to every sink
\* that is registered for that id at the moment of the call, whatever
\* subscriptions, disconnects and other publishes came before.
C13_RegisteredSinkIsWritten ==
    [][\A n \in (Len(published) + 1)..Len(published') :
          \A s \in Sinks :
              Registered(s, published'[n])
              => Got(received'[s], published'[n], n)]_vars

C13_Witness ==
    \E s1 \in Sinks, s2 \in Sinks :
        /\ s1 # s2 /\ sink[s1].id \in DownloadIds /\ sink[s2].id = sink[s1].id
        /\ sink[s1].state = "open" /\ sink[s2].state = "closed"
        /\ Len(received[s1]) = 3 /\ Len(received[s2]) = 2

\* C14: a subscriber of a job sees the job's full history: every event
\* published for a job id so far has been written to every sink that is
\* open on that id.
C14_SubscriberSeesFullHistory ==
    \A s \in Sinks :
        (sink[s].id \in DownloadIds /\ Registered(s, sink[s].id))
        => \A n \in 1..Len(published) :
               published[n] = sink[s].id => Got(received[s], sink[s].id, n)

\* C15: a sink is written the events in the order in which they were
\* published: the positions in the publication order of the messages a sink
\* holds are increasing, and each message is the one published at its position.
C15_DeliveredInPublicationOrder ==
    \A s \in Sinks :
        /\ \A i \in 1..Len(received[s]) : \A k \in (i + 1)..Len(received[s]) :
               received[s][i].seq < received[s][k].seq
        /\ \A i \in 2..Len(received[s]) :
               /\ received[s][i].seq \in 1..Len(published)
               /\ published[received[s][i].seq] = received[s][i].id

C15_Witness ==
    \E s \in Sinks :
        /\ Len(received[s]) = 4
        /\ \E id \in DownloadIds : sseJob[id] = "ready" /\ sink[s].id = id

\* C16: when the write to one sink of a job id fails, the same sendProgress
\* call still writes the event to every other sink registered for that id,
\* and no exception leaves sendProgress.
C16_WriteFailureIsContained ==
    [][\A n \in (Len(published) + 1)..Len(published') :
          \A b \in Sinks :
              (sink[b].state = "open" /\ sink[b].id = published'[n]
               /\ ~sink[b].writable)
              => /\ received'[b] = received[b]
                 /\ \A s \in Sinks :
                        Registered(s, published'[n])
                        => Got(received'[s], published'[n], n)
                 /\ ~crashed']_vars

C16_Witness ==
    \E b \in Sinks, s \in Sinks, id \in DownloadIds :
        /\ activeDownloads[id] = SinkList(<<b, s>>)
        /\ ~sink[b].writable /\ sink[s].writable
        /\ Len(received[b]) = 1 /\ Len(received[s]) = 2

\* the data of the last sendProgress call made for the id
LastType(id) ==
    LET ns == {n \in 1..Len(published) : published[n] = id} IN
    IF ns = {} THEN "none"
    ELSE pubType[CHOOSE n \in ns : \A m \in ns : m <= n]

\* C18: a failed background playlist job has published an error event as
\* its last event, and a later GET /api/download/:downloadId for its id
\* reports the job as failed, not as unknown or not ready.
C18_FailedJobIsQueryable ==
    /\ [](\A id \in DownloadIds : sseJob[id] = "failed" => LastType(id) = "error")
    /\ [][\A g \in Gets :
              (gets[g].state = "new" /\ gets'[g].state # "new"
               /\ sseJob[gets'[g].id] = "failed")
              => gets'[g].state = "failed"]_vars

\* C19: an archive is removed from disk only by the cleanup timer of a
\* request that has streamed it completely, and never while another request
\* is still reading it.
C19_NoDeletionDuringRead ==
    [][\A z \in ZipPaths :
          (zips[z] /\ ~zips'[z])
          => /\ \E g \in Gets :
                    /\ gets[g].zipPath = z
                    /\ gets[g].state = "ended" /\ gets'[g].state = "cleaned"
             /\ \A g \in Gets :
                    gets[g].zipPath = z
                    => gets[g].state \notin {"opening", "streaming"}]_vars

\* C20: when the cleanup timer of a completely streamed archive fires, the
\* archive is gone from disk, and from then on activeDownloads holds no
\* `<downloadId>_result` entry for the id of that request.
C20_NoStateAfterDelivery ==
    /\ [](\A g \in Gets :
              gets[g].state = "cleaned"
              => activeDownloads[ResultKey(gets[g].id)].kind # "result")
    /\ [][\A g \in Gets :
              (gets[g].state = "ended" /\ gets'[g].state = "cleaned")
              => ~zips'[gets[g].zipPath]]_vars

\* C21: a failure of a cleanup step (the unlink of the streamed artifact,
\* the removal of the playlist directory) changes nothing of the outcome of
\* a job that succeeded: the step that fails leaves the promise, its result,
\* the response and the published events as they were, and a resolved job
\* with a failed cleanup has published complete, no error event, and has no
\* failure response.
CleanupFails(j) ==
    \/ job[j].rmTimer = "pending" /\ job'[j].rmTimer = "failed"
    \/ job[j].unlink = "pending" /\ job'[j].unlink = "failed"

C21_CleanupFailureIsHarmless ==
    /\ [][\A j \in Jobs :
              CleanupFails(j)
              => /\ job'[j].promise = job[j].promise
                 /\ job'[j].result = job[j].result
                 /\ job'[j].http = job[j].http
                 /\ emitted' = emitted /\ delivered' = delivered
                 /\ files' = files]_vars
    /\ [](\A j \in Jobs :
              (job[j].promise = "resolved"
               /\ (job[j].rmTimer = "failed" \/ job[j].unlink = "failed"))
              => /\ "complete" \in Stages(j)
                 /\ "error" \notin Stages(j)
                 /\ job[j].http \in {"streaming", "sent"})

C21_Witness ==
    \E j \in Jobs :
        /\ job[j].kind = "playlist" /\ job[j].promise = "resolved"
        /\ job[j].rmTimer = "failed" /\ job[j].unlink = "failed"
        /\ job[j].http = "sent" /\ "complete" \in Stages(j)

\* C22: createPlaylistZip resolves, with the archive path, only once the
\* write stream has closed; once the archiver or the write stream has
\* reported an error the archive promise is rejected, and neither it nor the
\* job ever resolves; a playlist job has published complete only after the
\* write stream closed and the archive promise resolved.
C22_ArchiveResolvesOnClose ==
    \A j \in Jobs :
        job[j].kind = "playlist"
        => /\ job[j].zipPromise = "resolved" => job[j].zip = "closed"
           /\ job[j].promise = "resolved"
              => /\ job[j].zipPromise = "resolved"
                 /\ job[j].result = ZipPath(job[j].cleanName)
           /\ job[j].zip = "errored" => job[j].zipPromise = "rejected"
           /\ job[j].zipPromise = "rejected"
              => /\ job[j].promise = "rejected" /\ job[j].result = <<>>
                 /\ "complete" \notin Stages(j)
           /\ "complete" \in Stages(j)
              => job[j].zip = "closed" /\ job[j].zipPromise = "resolved"

\* the write stream closed after an error: nothing was resolved
C22_Witness ==
    \E j \in Jobs :
        /\ job[j].kind = "playlist" /\ job[j].zip = "closed"
        /\ job[j].zipPromise = "rejected" /\ job[j].promise = "rejected"
        /\ job[j].zipProgress > 0

\* C23: no subprocess invocation is retried: within one job the info
\* subprocess is spawned at most once and the download subprocess at most
\* once, whatever exit codes or launch errors occur.
C23_NoRetry ==
    \A j \in Jobs :
        /\ job[j].infoSpawns <= 1 /\ job[j].dlSpawns <= 1
        /\ job[j].infoSpawns = 1 <=> job[j].info # "none"
        /\ job[j].dlSpawns = 1 <=> job[j].dl # "none"

\* both subprocesses failed, each was spawned once
C23_Witness ==
    \E j \in Jobs :
        /\ job[j].promise = "rejected" /\ job[j].error = "launch"
        /\ job[j].info = "closed" /\ job[j].dl = "closed" /\ job[j].code # 0
        /\ job[j].infoSpawns = 1 /\ job[j].dlSpawns = 1

\* C24: the progress of every published event lies in 0..100, for every job
\* kind and every output sequence, playlist output without an `item N of M`
\* marker before a conversion line included.
C24_ProgressInRange ==
    \A j \in Jobs : \A i \in 1..Len(emitted[j]) :
        /\ emitted[j][i].progress >= P(0)
        /\ emitted[j][i].progress <= P(100)

\* C25: for single-track and playlist jobs alike, the download subprocess
\* is spawned only by the close of the info subprocess with exit code 0; a
\* close of the info subprocess with a nonzero code leaves the job in Error
\* without a download subprocess, and a job that is in Error never spawns
\* one.
C25_DownloadOnlyAfterInfoSuccess ==
    [][\A j \in Jobs :
          /\ job'[j].dlSpawns > job[j].dlSpawns
             => /\ job[j].info = "running"
                /\ \E t \in Titles :
                       InfoClose(j, 0, t) \/ PlaylistInfoClose(j, 0, t)
          /\ (\E t \in Titles :
                  InfoClose(j, 1, t) \/ PlaylistInfoClose(j, 1, t))
             => /\ job'[j].promise = "rejected"
                /\ "error" \in {emitted'[j][i].stage : i \in 1..Len(emitted'[j])}
                /\ job'[j].dlSpawns = 0
          /\ job[j].promise = "rejected"
             => job'[j].dlSpawns = job[j].dlSpawns]_vars

\* C26: provided every spawned subprocess eventually emits 'close' or
\* 'error' and the archive write stream eventually emits 'close' or 'error',
\* the promise of a started job is eventually settled, resolved or rejected,
\* on every path.
C26_PromiseEventuallySettles ==
    \A j \in Jobs :
        (job[j].promise = "pending")
        ~> (job[j].promise \in {"resolved", "rejected"})

\* settled by the last step of the resolution: exit code 0, no file found
C26_Witness ==
    \E j \in Jobs :
        /\ job[j].promise = "rejected" /\ job[j].error = "notfound"
        /\ job[j].dl = "closed" /\ job[j].code = 0

\* C27: no job reads, resolves to, or deletes what another concurrent job
\* produced: the file a single-track job resolves with was created by that
\* job's own subprocess; the artifact of a resolved job is on disk while its
\* response is being streamed, and the directory of a playlist job is on
\* disk while the job downloads into it or archives it, unless the job's own
\* cleanup removed them.
C27_JobsAreIsolated ==
    \A a \in Jobs :
        /\ (job[a].kind = "single" /\ job[a].promise = "resolved")
           => job[a].result \in job[a].wrote
        /\ (job[a].promise = "resolved" /\ job[a].http = "streaming")
           => \/ ArtifactOnDisk(job[a])
              \/ job[a].rmTimer = "removed" /\ job[a].cleanName = <<>>
        /\ (job[a].kind = "playlist"
            /\ (job[a].dl = "running" \/ job[a].zip = "running"))
           => job[a].dir

\* C28: the output parser publishes at most one event per line, and a
\* conversion-destination line is handled only as a destination line: in the
\* single-track handler it records the path and publishes the 95 event
\* without setting the converting flag; in the playlist handler it publishes
\* the track-completed event and no convert event.
SingleLines == SingleChunks \ {Chunk(50, TRUE, Path(<<"a">>), FALSE)}

PlaylistLines == {c \in PlaylistChunks : c.dests <= 1}

NewEvents(j) == SubSeq(emitted'[j], Len(emitted[j]) + 1, Len(emitted'[j]))

C28_OneEventPerLine ==
    [][\A j \in Jobs :
          /\ \A c \in SingleLines :
                 DownloadStdout(j, c)
                 => /\ Len(NewEvents(j)) <= 1
                    /\ c.dest # <<>>
                       => /\ job'[j].finalFilePath = c.dest
                          /\ job'[j].isConverting = job[j].isConverting
                          /\ NewEvents(j) = <<Ev3("single", "convert", P(95))>>
          /\ \A c \in PlaylistLines :
                 PlaylistDownloadStdout(j, c)
                 => /\ Len(NewEvents(j)) <= 1
                    /\ c.dests = 1
                       => \A i \in 1..Len(NewEvents(j)) :
                              NewEvents(j)[i].stage # "convert"]_vars

\* C29: in the single-track workflow every
\* `[ExtractAudio] Destination: <path>.mp3` line is recorded as
\* finalFilePath, also when it is the first `[ExtractAudio]` line of the
\* output, and on exit code 0 with the recorded file present the job
\* resolves with exactly that path.
C29_DestinationIsRecorded ==
    [][\A j \in Jobs :
          /\ \A f \in FilePaths :
                 DownloadStdout(j, Chunk(NoPct, TRUE, f, FALSE))
                 => job'[j].finalFilePath = f
          /\ (DownloadClose(j, 0) /\ job[j].finalFilePath # <<>>
              /\ Exists(job[j].finalFilePath))
             => /\ job'[j].promise = "resolved"
                /\ job'[j].result = job[j].finalFilePath]_vars

\* C30: each track publishes exactly one convert event for its first
\* `[ExtractAudio]` marker, further markers before the track's destination
\* line publish nothing, and in playlists the destination line re-arms the
\* flag: a playlist has published one convert event per finished track plus
\* one for the track being converted; a single-track job has published the
\* conversion-started event once if it is converting and never otherwise.
Converts(j, kind) ==
    Cardinality({i \in 1..Len(emitted[j]) :
                    /\ emitted[j][i].type = kind
                    /\ emitted[j][i].stage = "convert"
                    /\ kind = "single" => emitted[j][i].progress = P(85)})

C31_DeletionMarkerOnlyInSingle ==
    [][\A j \in Jobs :
          /\ DownloadStdout(j, Chunk(NoPct, FALSE, <<>>, TRUE))
             => NewEvents(j) = <<Ev3("single", "complete", P(100))>>
          /\ PlaylistDownloadStdout(j, PlChunk(<<>>, NoPct, FALSE, 0, TRUE))
             => /\ emitted' = emitted /\ delivered' = delivered
                /\ job'[j].trackCount = job[j].trackCount
          /\ (job[j].kind = "playlist"
              /\ \E i \in 1..Len(NewEvents(j)) :
                     NewEvents(j)[i].stage = "complete")
             => ZipClose(j)]_vars

\* the marker has published complete while the subprocess still runs
C31_Witness ==
    \E j \in Jobs :
        /\ job[j].kind = "single" /\ job[j].dl = "running"
        /\ "complete" \in Stages(j)

\* C32: download-percentage events are remapped linearly into the range of
\* the job: every download-stage event of a single-track job has progress
\* 10 + 0.7 * p for a percentage p, within [10, 80]; every download-stage
\* event of a playlist job has progress within [5, 75].
C32_DownloadRange ==
    \A j \in Jobs : \A i \in 1..Len(emitted[j]) :
        emitted[j][i].stage = "download"
        => /\ emitted[j][i].type = "single"
              => /\ emitted[j][i].progress \in {P(10) + 42 * p : p \in 0..100}
                 /\ emitted[j][i].progress >= P(10)
                 /\ emitted[j][i].progress <= P(80)
           /\ emitted[j][i].type = "playlist"
              => /\ emitted[j][i].progress >= P(5)
                 /\ emitted[j][i].progress <= P(75)

\* C33: the filename repair never overwrites or loses a file: the close
\* handler leaves as many files in playlistDir as it found; every file that
\* disappeared had a problematic name, reappears under its repaired name,
\* which differs from the old name and was not in the directory, and no two
\* files were renamed to the same name; every other file is still there
\* under its own name (a file whose rename failed included).
Renamed == playlistFiles \ playlistFiles'

C33_RepairKeepsEveryFile ==
    [][\A j \in Jobs :
          (job[j].dl \in {"running", "errored"} /\ job'[j].dl = "closed")
          => /\ Cardinality(playlistFiles') = Cardinality(playlistFiles)
             /\ \A f \in Renamed :
                    /\ HasProblematicName(f)
                    /\ RepairedName(f) # f
                    /\ RepairedName(f) \notin playlistFiles
                    /\ RepairedName(f) \in playlistFiles'
             /\ \A f, g \in Renamed :
                    f # g => RepairedName(f) # RepairedName(g)
             /\ playlistFiles' \ playlistFiles
                = {RepairedName(f) : f \in Renamed}]_vars

\* after the repair a file with a problematic name is still there because
\* its repaired name is taken
C33_Witness ==
    \E j \in Jobs :
        /\ job[j].dl = "closed" /\ job[j].zip = "running"
        /\ \E f \in playlistFiles :
               /\ HasProblematicName(f) /\ RepairedName(f) # f
               /\ RepairedName(f) \in playlistFiles

\* C34: the playlist directory is removed when the archive builder
\* succeeded, and only then: once the archive promise resolved the removal is
\* scheduled; once it was rejected the removal is never scheduled and the
\* directory stays, whatever the write stream emits afterwards.
C34_DirectoryRemovedOnlyOnSuccess ==
    \A j \in Jobs :
        job[j].kind = "playlist"
        => /\ job[j].zipPromise = "resolved" => job[j].rmTimer # "none"
           /\ job[j].zipPromise = "rejected"
              => job[j].rmTimer = "none" /\ job[j].dir
           /\ job[j].rmTimer # "none" => job[j].zipPromise = "resolved"

\* C35: in a playlist job the completed-track count of the complete event
\* is the number of conversion-destination lines of the output: every chunk
\* raises the count by the number of destination lines it carries, also a
\* chunk with the lines of more than one track, and every complete event
\* carries the count.
C35_CountsEveryDestinationLine ==
    /\ [][\A j \in Jobs : \A c \in PlaylistChunks :
              PlaylistDownloadStdout(j, c)
              => job'[j].trackCount = job[j].trackCount + c.dests]_vars
    /\ [](\A j \in Jobs : \A i \in 1..Len(emitted[j]) :
              (emitted[j][i].type = "playlist"
               /\ emitted[j][i].stage = "complete")
              => emitted[j][i].completedTracks = job[j].trackCount)

\* C36: complete and error are terminal: an event of stage complete or
\* error is the last event its job publishes, so a job publishes at most one
\* of them, and after it the job spawns no subprocess.
Terminal(e) == e.stage \in {"complete", "error"}

C36_TerminalIsLast ==
    /\ [](\A j \in Jobs : \A i \in 1..Len(emitted[j]) :
              Terminal(emitted[j][i]) => i = Len(emitted[j]))
    /\ [][\A j \in Jobs :
              (\E i \in 1..Len(emitted[j]) : Terminal(emitted[j][i]))
              => /\ job'[j].infoSpawns = job[j].infoSpawns
                 /\ job'[j].dlSpawns = job[j].dlSpawns]_vars

\* C37: in every event of a playlist job that carries both counters,
\* completedTracks is at most totalTracks, and completedTracks never
\* decreases from one event of the job that carries it to a later one.
C37_CompletedTracksMonotone ==
    \A j \in Jobs : \A i \in 1..Len(emitted[j]) :
        emitted[j][i].type = "playlist"
        => /\ (emitted[j][i].totalTracks # NoCount
               /\ emitted[j][i].completedTracks # NoCount)
              => emitted[j][i].completedTracks <= emitted[j][i].totalTracks
           /\ \A k \in 1..(i - 1) :
                  (emitted[j][k].completedTracks # NoCount
                   /\ emitted[j][i].completedTracks # NoCount)
                  => emitted[j][k].completedTracks
                     <= emitted[j][i].completedTracks

\* C38: in the SSE revision ready_for_download is published for a job id
\* only after the result of the job was stored: from the publication until
\* the cleanup timer of a delivery of that id has run, the result entry is in
\* activeDownloads and no GET /api/download/<id> is answered with 404.
ReadyPublished(id) ==
    \E n \in 1..Len(published) :
        published[n] = id /\ pubType[n] = "ready_for_download"

CleanupRan(id) ==
    \E g \in Gets : gets[g].id = id /\ gets[g].state = "cleaned"

C38_ReadyImpliesRetrievable ==
    /\ [](\A id \in DownloadIds :
              (ReadyPublished(id) /\ ~CleanupRan(id))
              => activeDownloads[ResultKey(id)].kind = "result")
    /\ [][\A g \in Gets :
              (gets[g].state = "new" /\ gets'[g].state = "404")
              => ~(ReadyPublished(gets'[g].id) /\ ~CleanupRan(gets'[g].id))]_vars

\* two retrievals of a ready job, the second one before any cleanup
C38_Witness ==
    \E g, h \in Gets :
        /\ g # h /\ gets[g].id = gets[h].id
        /\ ReadyPublished(gets[g].id) /\ ~CleanupRan(gets[g].id)
        /\ gets[g].state = "ended" /\ gets[h].state = "opening"

\* C39: in the SSE revision, whenever activeDownloads holds a
\* `<downloadId>_result` entry, the archive it names exists on disk.
C39_ResultEntryHasArchive ==
    \A id \in DownloadIds :
        activeDownloads[ResultKey(id)].kind = "result"
        => zips[activeDownloads[ResultKey(id)].zipPath]

\* C40: in the SSE revision sink lists and results never collide in
\* activeDownloads: under a job id there is never a result, under a
\* `<downloadId>_result` key never a sink list, and the handler of
\* GET /api/progress/:downloadId never finds a result where it expects its
\* list, whatever id the client presents.
C40_NoKeyCollision ==
    /\ \A id \in DownloadIds :
           /\ activeDownloads[id].kind # "result"
           /\ activeDownloads[ResultKey(id)].kind # "sinks"
    /\ \A s \in Sinks : sink[s].state # "failed"

====
